---- MODULE Spec2Model ----
(***************************************************************************)
(* Exam mastering (packages/mastering, src/unnamed/part_000).              *)
(*                                                                         *)
(* masterExam parses and validates one authoring document, then masters    *)
(* every declared exam version from its own freshly parsed tree, through   *)
(* the ordered passes of masterExamVersion.  The document is modelled as   *)
(* a DOM: a sequence of nodes addressed by index (the root is node 1),     *)
(* each with an element name, a namespace, an attribute map and the        *)
(* sequence of its child elements.                                         *)
(*                                                                         *)
(* Attribute values: a textual attribute is a string, exam-type is the set *)
(* of the type names its text contains, a numeric attribute n is the       *)
(* tuple <<n>> and a text that Number() does not parse ("undefined",       *)
(* "NaN") is the empty tuple NaN.                                          *)
(*                                                                         *)
(* The formula renderer is an input: for every markup it renders, raises   *)
(* a list of error strings or raises something else.  Two programs around  *)
(* masterExam are modelled with it: createOfflineExam                      *)
(* (packages/rendering), which names one directory per result, and the     *)
(* GradingAnswer view (packages/core), which shows the length of an        *)
(* answer and its surplus over the maximum length.                         *)
(***************************************************************************)
EXTENDS Integers, Sequences, FiniteSets, TLC

VARIABLES xml, options, validationErrors, renderer, sha256, memoizedGetMediaMetadata,
          calls, promise, error, results, version, examOutputDirectories, gradingAnswer

\* what masterExam is given: the source, the options, the errors of the
\* schema validation and the answers of the formula renderer
inputs == <<xml, options, validationErrors, renderer>>

\* the programs around masterExam: the directories createOfflineExam has
\* written, and the answer the grading view shows
around == <<examOutputDirectories, gradingAnswer>>

vars == <<inputs, around, sha256, memoizedGetMediaMetadata, calls, promise, error, results,
          version>>

----------------------------------------------------------------------------
(* Bounds of the input families.                                           *)

MaxAnswers == 3
MaxOptions == 3
MaxSections == 2
MaxQuestions == 2
MaxScore == 2
MaxFormulas == 2
MaxMedia == 2
MaxCharacters == 368

----------------------------------------------------------------------------
(* JavaScript numbers, as far as mastering uses them.                      *)

NaN == <<>>

Num(n) == <<n>>

isNaN(x) == x = NaN

\* a + b
plus(a, b) == IF isNaN(a) \/ isNaN(b) THEN NaN ELSE Num(a[1] + b[1])

\* a > b (every comparison with NaN is false)
gt(a, b) == ~isNaN(a) /\ ~isNaN(b) /\ a[1] > b[1]

\* null, as getNumericAttribute(name, element, null) returns it
null == <<0, 0>>

Min(a, b) == IF a <= b THEN a ELSE b

Max(a, b) == IF a >= b THEN a ELSE b

----------------------------------------------------------------------------
(* Sequences.                                                              *)

filter(s, Test(_)) == SelectSeq(s, Test)

\* s.forEach((x) => acc = Op(acc, x))
forEach(acc, s, Op(_, _)) ==
  LET F[i \in 0..Len(s)] == IF i = 0 THEN acc ELSE Op(F[i - 1], s[i]) IN F[Len(s)]

\* s.map(Op)
map(s, Op(_)) == [i \in 1..Len(s) |-> Op(s[i])]

RECURSIVE flatten(_)
flatten(ss) == IF ss = <<>> THEN <<>> ELSE Head(ss) \o flatten(Tail(ss))

Range(s) == {s[i] : i \in 1..Len(s)}

take(s, n) == SubSeq(s, 1, Min(Len(s), Max(n, 0)))

indexOf(s, x) == CHOOSE i \in 1..Len(s) : s[i] = x /\ \A j \in 1..(i - 1) : s[j] # x

Perms(n) == {p \in [1..n -> 1..n] : \A i, j \in 1..n : p[i] = p[j] => i = j}

----------------------------------------------------------------------------
(* The DOM.                                                                *)

\* the root element of a document
root == 1

NoAttrs == [k \in {} |-> 0]

hasAttribute(doc, e, name) == name \in DOMAIN doc[e].attrs

getAttribute(doc, e, name, defaultValue) ==
  IF hasAttribute(doc, e, name) THEN doc[e].attrs[name] ELSE defaultValue

attr(doc, e, name, value) ==
  [doc EXCEPT ![e].attrs =
     [k \in DOMAIN @ \cup {name} |-> IF k = name THEN value ELSE @[k]]]

removeAttr(doc, e, name) ==
  [doc EXCEPT ![e].attrs = [k \in DOMAIN @ \ {name} |-> @[k]]]

Parents(doc, e) == {p \in 1..Len(doc) : e \in Range(doc[p].children)}

\* the root element has been unlinked from its document: the document has
\* no root element any more, the element keeps its subtree
isUnlinked(doc) == "unlinked" \in DOMAIN doc[root]

\* element.remove(): the element is unlinked from its parent, the root
\* element from the document
remove(doc, e) ==
  [p \in 1..Len(doc) |->
     IF p = e /\ e = root /\ ~isUnlinked(doc)
     THEN ("unlinked" :> TRUE) @@ doc[p]
     ELSE [doc[p] EXCEPT !.children = filter(@, LAMBDA c : c # e)]]

\* parent.addChild(e): the element moves to the end of parent's children
addChild(doc, parent, e) ==
  [remove(doc, e) EXCEPT ![parent].children = Append(@, e)]

RECURSIVE descendants(_, _), descendantsOfAll(_, _)
\* the descendant elements of e, in document order
descendants(doc, e) == descendantsOfAll(doc, doc[e].children)

descendantsOfAll(doc, es) ==
  IF es = <<>> THEN <<>>
  ELSE <<Head(es)>> \o descendants(doc, Head(es)) \o descendantsOfAll(doc, Tail(es))

isE(doc, e, names) == doc[e].ns = "e" /\ doc[e].name \in names

\* element.find('./e:a | ./e:b')
findChildren(doc, e, names) == filter(doc[e].children, LAMBDA c : isE(doc, c, names))

\* element.find('.//e:a | .//e:b')
find(doc, e, names) == filter(descendants(doc, e), LAMBDA c : isE(doc, c, names))

\* element.find('//e:a | //e:b'): the path starts at the document, whatever
\* the element; a document without a root element holds nothing
findAll(doc, names) == IF isUnlinked(doc) THEN <<>> ELSE find(doc, root, names)

\* element.find('//e:*'), the root element included
findAllElements(doc) ==
  IF isUnlinked(doc) THEN <<>>
  ELSE filter(<<root>> \o descendants(doc, root), LAMBDA c : doc[c].ns = "e")

RECURSIVE ancestors(_, _)
\* the ancestors of e, nearest first
ancestors(doc, e) ==
  IF Parents(doc, e) = {} THEN <<>>
  ELSE LET p == CHOOSE p \in Parents(doc, e) : TRUE IN <<p>> \o ancestors(doc, p)

\* queryAncestors(element, predicate): the nearest ancestor among those the
\* predicate holds for, 0 when there is none
queryAncestors(doc, element, matching) ==
  LET found == SelectSeq(ancestors(doc, element), LAMBDA a : a \in matching)
  IN IF found = <<>> THEN 0 ELSE Head(found)

----------------------------------------------------------------------------
(* parseXml: building documents.  A fragment is a document whose child     *)
(* indices are relative to the fragment's first node.                      *)

RECURSIVE SumLen(_, _)
SumLen(kids, n) == IF n = 0 THEN 0 ELSE Len(kids[n]) + SumLen(kids, n - 1)

Shift(frag, k) ==
  [i \in 1..Len(frag) |->
     [frag[i] EXCEPT !.children = [j \in 1..Len(@) |-> @[j] + k]]]

Node(nspace, name, attrs, text, kids) ==
  <<[ns |-> nspace, name |-> name, attrs |-> attrs, text |-> text,
     children |-> [i \in 1..Len(kids) |-> SumLen(kids, i - 1) + 2]]>>
  \o flatten([i \in 1..Len(kids) |-> Shift(kids[i], SumLen(kids, i - 1) + 1)])

E(name, attrs, kids) == Node("e", name, attrs, "", kids)

----------------------------------------------------------------------------
(* The exam vocabulary (./schema) and the options of masterExam.           *)

choiceAnswerTypes == {"choice-answer", "dropdown-answer"}

textAnswerTypes == {"text-answer", "scored-text-answer"}

answerTypes == textAnswerTypes \cup choiceAnswerTypes

choiceAnswerOptionTypes == {"choice-answer-option", "dropdown-answer-option"}

\* an options value that is present and undefined
undefined == "undefined"

defaultOptions ==
  [multiChoiceShuffleSecret |-> "tJXjzAhY3dT4B26aikG2tPmPRlWRTKXF5eVpOR2eDFz3Aj4a3FHF1jB3tswVWPhc",
   removeCorrectAnswers |-> TRUE,
   throwOnLatexError |-> TRUE]

\* { ...options, ...defaultOptions }: the defaults win
defaultsOverOptions(opts) ==
  [k \in DOMAIN defaultOptions \cup DOMAIN opts |->
     IF k \in DOMAIN defaultOptions THEN defaultOptions[k] ELSE opts[k]]

\* { ...defaultOptions, ...options }: every key that options holds wins, also
\* one that holds undefined
optionsWithDefaults(opts) ==
  [k \in DOMAIN defaultOptions \cup DOMAIN opts |->
     IF k \in DOMAIN opts THEN opts[k] ELSE defaultOptions[k]]

\* options.multiChoiceShuffleSecret, read as a condition
hasShuffleSecret(opts) ==
  /\ "multiChoiceShuffleSecret" \in DOMAIN opts
  /\ opts.multiChoiceShuffleSecret \notin {undefined, ""}

----------------------------------------------------------------------------
(* parseExamStructure: sections, questions (leaf or branch) and answers.   *)


nearestQuestion(doc, e) ==
  LET qs == filter(ancestors(doc, e), LAMBDA a : isE(doc, a, {"question"}))
  IN IF qs = <<>> THEN 0 ELSE Head(qs)

parseAnswer(element, question) == [element |-> element, question |-> question]

RECURSIVE parseQuestion(_, _)
parseQuestion(doc, question) ==
  LET found == filter(find(doc, question, {"question"}),
                      LAMBDA c : nearestQuestion(doc, c) = question)
      childQuestions == [i \in 1..Len(found) |-> parseQuestion(doc, found[i])]
      answers == map(find(doc, question, answerTypes),
                     LAMBDA a : parseAnswer(a, question))
  IN IF Len(childQuestions) > 0
     THEN [element |-> question, childQuestions |-> childQuestions, answers |-> <<>>]
     ELSE [element |-> question, childQuestions |-> <<>>, answers |-> answers]

parseSection(doc, element) ==
  [element |-> element,
   questions |-> map(findChildren(doc, element, {"question"}),
                     LAMBDA q : parseQuestion(doc, q))]

RECURSIVE collectQuestions(_), collectAnswers(_)
collectQuestions(question) ==
  <<question>> \o
  (IF Len(question.answers) > 0 THEN <<>>
   ELSE flatten([i \in 1..Len(question.childQuestions) |->
                   collectQuestions(question.childQuestions[i])]))

collectAnswers(question) ==
  IF Len(question.answers) > 0 THEN question.answers
  ELSE flatten([i \in 1..Len(question.childQuestions) |->
                  collectAnswers(question.childQuestions[i])])

parseExamStructure(doc) ==
  LET sections == map(findAll(doc, {"section"}), LAMBDA s : parseSection(doc, s))
      topLevelQuestions == flatten([i \in 1..Len(sections) |-> sections[i].questions])
  IN [element |-> root,
      sections |-> sections,
      questions |-> flatten([i \in 1..Len(topLevelQuestions) |->
                               collectQuestions(topLevelQuestions[i])]),
      topLevelQuestions |-> topLevelQuestions,
      answers |-> flatten([i \in 1..Len(topLevelQuestions) |->
                             collectAnswers(topLevelQuestions[i])])]

----------------------------------------------------------------------------
(* The passes of masterExamVersion.  A pass that draws identifiers takes   *)
(* and returns the counter of mkGenerateId with the document.              *)

\* mkGenerateId: let current = 1
mkGenerateId == 1

\* elements.forEach((e) => e.attr(name, String(generateId())))
withIds(doc, current, elements, name) ==
  [doc |-> forEach(doc, [i \in 1..Len(elements) |-> <<elements[i], current + i - 1>>],
                   LAMBDA d, p : attr(d, p[1], name, Num(p[2]))),
   current |-> current + Len(elements)]

addExamMetadata(doc, examUuid, language, type) ==
  attr(attr(attr(attr(doc, root, "exam-uuid", examUuid),
                 root, "exam-lang", language),
            root, "exam-type", {type}),
       root, "exam-schema-version", "0.1")

\* the language of the subject of an exam, by its key: the exam-code, with
\* the day-code behind it when the exam has one
subjectLanguages ==
  (<<"BA">> :> "sv-FI") @@ (<<"BB">> :> "sv_FI") @@ (<<"CA">> :> "fi-FI") @@
  (<<"CB">> :> "fi-FI") @@ (<<"EA">> :> "en-GB") @@ (<<"EC">> :> "en-GB") @@
  (<<"FA">> :> "fr-FR") @@ (<<"FC">> :> "fr-FR") @@ (<<"GC">> :> "pt-PT") @@
  (<<"L1">> :> "la") @@ (<<"L7">> :> "la") @@ (<<"PA">> :> "es-ES") @@
  (<<"PC">> :> "es-ES") @@ (<<"SA">> :> "de-DE") @@ (<<"SC">> :> "de-DE") @@
  (<<"TC">> :> "it-IT") @@ (<<"IC">> :> "smn-FI") @@
  (<<"DC">> :> "sme-FI") @@ (<<"QC">> :> "sms-FI") @@
  (<<"VA">> :> "ru-RU") @@ (<<"VC">> :> "ru-RU")

\* addYoCustomizations: an exam with an exam-code whose root has no lang
\* takes the language of its subject.  (The exam-title and the exam-footer
\* it adds hold texts of the i18n resources; they are not part of the
\* modelled tree.)
addYoCustomizations(doc) ==
  LET examCode == getAttribute(doc, root, "exam-code", "")
      dayCode == getAttribute(doc, root, "day-code", "")
      key == IF dayCode # "" THEN <<examCode, dayCode>> ELSE <<examCode>>
      examLang == getAttribute(doc, root, "lang", "")
  IN IF examCode = "" THEN doc
     ELSE IF examLang = "" /\ key \in DOMAIN subjectLanguages
          THEN attr(doc, root, "lang", subjectLanguages[key])
          ELSE doc

\* isBlank that finds content in every localization
isBlankNever(doc, e) == FALSE

\* every child node of the localization is a whitespace text node
isBlank(doc, e) == doc[e].children = <<>> /\ doc[e].text = ""

\* applyLocalizations without its last step, the removal of the marked elements
applyLocalizationsOfBlocks(doc, language, type) ==
  LET versions == findChildren(doc, root, {"exam-versions"})
      d1 == IF versions = <<>> THEN doc ELSE remove(doc, Head(versions))
      localize(d, l) ==
        IF \/ getAttribute(d, l, "lang", language) # language
           \/ type \notin getAttribute(d, l, "exam-type", {type})
           \/ isBlank(d, l)
        THEN remove(d, l)
        ELSE removeAttr([d EXCEPT ![l].name = "span", ![l].ns = "xhtml"], l, "exam-type")
      d2 == forEach(d1, findAll(d1, {"localization"}), localize)
  IN d2

applyLocalizations(doc, language, type) ==
  LET versions == findChildren(doc, root, {"exam-versions"})
      d1 == IF versions = <<>> THEN doc ELSE remove(doc, Head(versions))
      localize(d, l) ==
        IF \/ getAttribute(d, l, "lang", language) # language
           \/ type \notin getAttribute(d, l, "exam-type", {type})
           \/ isBlank(d, l)
        THEN remove(d, l)
        ELSE removeAttr([d EXCEPT ![l].name = "span", ![l].ns = "xhtml"], l, "exam-type")
      d2 == forEach(d1, findAll(d1, {"localization"}), localize)
      others == filter(findAllElements(d2),
                       LAMBDA e : \/ /\ hasAttribute(d2, e, "lang")
                                     /\ d2[e].attrs["lang"] # language
                                  \/ /\ hasAttribute(d2, e, "exam-type")
                                     /\ type \notin d2[e].attrs["exam-type"])
  IN forEach(d2, others, remove)

\* addQuestionIds, were it to run after applyLocalizations: the answers of
\* the version's own tree are numbered
addQuestionIdsOfVersion(doc, current) ==
  LET own == applyLocalizations(doc, doc[root].attrs["exam-lang"],
                                CHOOSE t \in doc[root].attrs["exam-type"] : TRUE)
      exam == parseExamStructure(own)
  IN withIds(doc, current, map(exam.answers, LAMBDA x : x.element), "question-id")

addQuestionIds(doc, current) ==
  LET exam == parseExamStructure(doc)
  IN withIds(doc, current, map(exam.answers, LAMBDA a : a.element), "question-id")

getNumericAttribute(doc, e, name, defaultValue) == getAttribute(doc, e, name, defaultValue)

byName(doc, e, names) == doc[e].name \in names

byAttribute(doc, e, name, value) == getAttribute(doc, e, name, "") = value

RECURSIVE digits(_)
\* the length of String(n), n >= 0
digits(n) == IF n < 10 THEN 1 ELSE 1 + digits(n \div 10)

\* String(a) + String(b), read back as a number
concat(a, b) == a * (10 ^ digits(b)) + b

\* the SHA-256 digest of answerKey + index + secret, as its rank among the
\* digests of the answer's options: sha256 holds, for every hashed answerKey
\* and secret, the ranks of the digests of index 0, 1, ...
createHash(oracle, answerKey, index, secret) == oracle[<<answerKey, secret>>][index + 1]

\* _.sortBy(s, Key): ascending and stable
sortBy(s, Key(_)) ==
  forEach(<<>>, s,
          LAMBDA acc, x :
            LET k == Cardinality({i \in 1..Len(acc) : Key(acc[i]) <= Key(x)})
            IN SubSeq(acc, 1, k) \o <<x>> \o SubSeq(acc, k + 1, Len(acc)))

\* _.orderBy(s, Key, 'desc'): stable; lodash orders NaN above every number
orderByDesc(s, Key(_)) ==
  forEach(<<>>, s,
          LAMBDA acc, x :
            LET before(a, b) == (isNaN(a) /\ ~isNaN(b)) \/ gt(a, b)
                k == Cardinality({i \in 1..Len(acc) : ~before(Key(x), Key(acc[i]))})
            IN SubSeq(acc, 1, k) \o <<x>> \o SubSeq(acc, k + 1, Len(acc)))

\* _.sum
sum(s) == forEach(Num(0), s, plus)

\* String(_.max(s)): _.max of an empty array is undefined, and "undefined"
\* is not the text of a number
max(s) == forEach(NaN, s, LAMBDA acc, x : IF isNaN(acc) \/ gt(x, acc) THEN x ELSE acc)

\* a clamp that applies the lower bound before the upper one
clampLowerFirst(number, lower, upper) ==
  LET n1 == IF number >= lower THEN number ELSE lower
  IN IF n1 <= upper THEN n1 ELSE upper

\* _.clamp(number, lower, upper) (lodash baseClamp)
clamp(number, lower, upper) ==
  LET n1 == IF number <= upper THEN number ELSE upper
  IN IF n1 >= lower THEN n1 ELSE lower

answerKeyOf(doc, answer) ==
  concat(Len(findChildren(doc, answer, choiceAnswerOptionTypes)),
         getAttribute(doc, answer, "question-id", NaN)[1])

\* shuffledAnswers without the filter on ordering
shuffledAnswersAlsoFixed(doc, exam) ==
  filter(map(exam.answers, LAMBDA a : a.element), LAMBDA e : byName(doc, e, choiceAnswerTypes))

\* the answers shuffleAnswerOptions reorders
shuffledAnswers(doc, exam) ==
  filter(map(exam.answers, LAMBDA a : a.element),
         LAMBDA e : byName(doc, e, choiceAnswerTypes) /\ ~byAttribute(doc, e, "ordering", "fixed"))

shuffleAnswer(doc, answer, secret, oracle) ==
  LET opts == findChildren(doc, answer, choiceAnswerOptionTypes)
      answerKey == answerKeyOf(doc, answer)
      sortedOptions == sortBy(opts, LAMBDA o : createHash(oracle, answerKey, indexOf(opts, o) - 1, secret))
      d1 == forEach(doc, sortedOptions, LAMBDA d, o : addChild(d, answer, o))
      noAnswerOptions == filter(opts, LAMBDA o : getAttribute(doc, o, "type", "normal") = "no-answer")
  IN IF noAnswerOptions # <<>> THEN addChild(d1, answer, Head(noAnswerOptions)) ELSE d1

shuffleAnswerOptions(doc, exam, secret, oracle) ==
  forEach(doc, shuffledAnswers(doc, exam), LAMBDA d, a : shuffleAnswer(d, a, secret, oracle))

\* addAnswerOptionIds with a counter of its own
addAnswerOptionIdsFromOne(doc, exam, current) ==
  LET choices == filter(map(exam.answers, LAMBDA a : a.element),
                        LAMBDA e : doc[e].name \in choiceAnswerTypes)
      r == withIds(doc, mkGenerateId,
                   flatten(map(choices, LAMBDA e : find(doc, e, choiceAnswerOptionTypes))),
                   "option-id")
  IN [doc |-> r.doc, current |-> current]

\* addAnswerOptionIds that numbers the options of an answer as authored
addAnswerOptionIdsAsAuthored(doc, exam, current) ==
  LET choices == filter(map(exam.answers, LAMBDA a : a.element),
                        LAMBDA e : doc[e].name \in choiceAnswerTypes)
  IN withIds(doc, current,
             flatten(map(choices, LAMBDA e : sortBy(find(doc, e, choiceAnswerOptionTypes),
                                                    LAMBDA o : o))),
             "option-id")

addAnswerOptionIds(doc, exam, current) ==
  LET choices == filter(map(exam.answers, LAMBDA a : a.element),
                        LAMBDA e : doc[e].name \in choiceAnswerTypes)
  IN withIds(doc, current,
             flatten(map(choices, LAMBDA e : find(doc, e, choiceAnswerOptionTypes))),
             "option-id")

updateMaxScoreToAnswer(doc, element) ==
  IF doc[element].name \in {"choice-answer", "dropdown-answer", "scored-text-answer"}
     /\ ~hasAttribute(doc, element, "max-score")
  THEN LET scores == map(findChildren(doc, element,
                                      {"choice-answer-option", "dropdown-answer-option",
                                       "accepted-answer"}),
                         LAMBDA o : getNumericAttribute(doc, o, "score", Num(0)))
       IN attr(doc, element, "max-score", max(scores))
  ELSE doc

updateMaxScoresToAnswers(doc, exam) ==
  forEach(doc, map(exam.answers, LAMBDA a : a.element), updateMaxScoreToAnswer)

\* otherSections without the filter
everySection(exam, section) == exam.sections

\* exam.sections.filter((s) => s !== section)
otherSections(exam, section) ==
  filter(exam.sections, LAMBDA o : o.element # section.element)

countSectionMaxAndMinAnswers(doc, exam) ==
  LET examMaxAnswers == getNumericAttribute(doc, exam.element, "max-answers", null)
      withMax(d, section) ==
        IF getNumericAttribute(d, section.element, "max-answers", null) = null
        THEN attr(d, section.element, "max-answers",
                  Num(Min(Len(section.questions), examMaxAnswers[1])))
        ELSE d
      d1 == forEach(doc, exam.sections, withMax)
      withMin(d, section) ==
        LET maxAnswers == getNumericAttribute(d, section.element, "max-answers", NaN)
            otherSectionMaxAnswers ==
              sum(map(otherSections(exam, section),
                      LAMBDA o : getNumericAttribute(d, o.element, "max-answers", NaN)))
            minAnswers == clamp(maxAnswers[1], 0, examMaxAnswers[1] - otherSectionMaxAnswers[1])
        IN attr(d, section.element, "min-answers", Num(minAnswers))
  IN IF examMaxAnswers \in {null, NaN, Num(0)} THEN doc
     ELSE forEach(d1, exam.sections, withMin)

\* countMaxScore that counts the one best answerable when no max-answers is given
countMaxScoreOfBest(doc, answerables, maxAnswers) ==
  LET maxScores == map(answerables, LAMBDA a : getNumericAttribute(doc, a, "max-score", NaN))
  IN sum(take(orderByDesc(maxScores, LAMBDA x : x),
              IF maxAnswers = null THEN 1 ELSE maxAnswers[1]))

\* countMaxScore(answerables, maxAnswers), on the answerables' elements
countMaxScore(doc, answerables, maxAnswers) ==
  LET maxScores == map(answerables, LAMBDA a : getNumericAttribute(doc, a, "max-score", NaN))
  IN sum(take(orderByDesc(maxScores, LAMBDA x : x),
              IF maxAnswers = null THEN Len(answerables) ELSE maxAnswers[1]))

RECURSIVE countQuestionMaxScores(_, _)
\* countQuestionMaxScores that counts a question before its child questions
countQuestionMaxScoresParentFirst(doc, question) ==
  LET maxAnswers == getNumericAttribute(doc, question.element, "max-answers", null)
      answerables == IF Len(question.childQuestions) > 0
                     THEN question.childQuestions ELSE question.answers
      maxScore == countMaxScore(doc, map(answerables, LAMBDA a : a.element), maxAnswers)
  IN forEach(attr(doc, question.element, "max-score", maxScore),
             question.childQuestions, countQuestionMaxScores)

countQuestionMaxScores(doc, question) ==
  LET d1 == forEach(doc, question.childQuestions, countQuestionMaxScores)
      maxAnswers == getNumericAttribute(d1, question.element, "max-answers", null)
      answerables == IF Len(question.childQuestions) > 0
                     THEN question.childQuestions ELSE question.answers
      maxScore == countMaxScore(d1, map(answerables, LAMBDA a : a.element), maxAnswers)
  IN attr(d1, question.element, "max-score", maxScore)

\* countSectionMaxScores that counts every question of a section
countSectionMaxScoresOfAll(doc, exam) ==
  forEach(doc, exam.sections,
          LAMBDA d, section :
            LET d1 == forEach(d, section.questions, countQuestionMaxScores)
            IN attr(d1, section.element, "max-score",
                    countMaxScore(d1, map(section.questions, LAMBDA q : q.element), null)))

countSectionMaxScores(doc, exam) ==
  forEach(doc, exam.sections,
          LAMBDA d, section :
            LET d1 == forEach(d, section.questions, countQuestionMaxScores)
                maxAnswers == getNumericAttribute(d1, section.element, "max-answers", null)
                maxScore == countMaxScore(d1, map(section.questions, LAMBDA q : q.element),
                                          maxAnswers)
            IN attr(d1, section.element, "max-score", maxScore))

\* countExamMaxScore that adds up the max-scores of the sections
countExamMaxScoreOfSections(doc, exam) ==
  attr(doc, exam.element, "max-score",
       sum(map(exam.sections, LAMBDA x : getNumericAttribute(doc, x.element, "max-score", NaN))))

countExamMaxScore(doc, exam) ==
  LET examMaxAnswers == getNumericAttribute(doc, exam.element, "max-answers", null)
      questionsWithHighestMaxScoresPerSection ==
        flatten(map(exam.sections,
                    LAMBDA section :
                      LET sectionMaxAnswers ==
                            getNumericAttribute(doc, section.element, "max-answers", null)
                          questions == map(section.questions, LAMBDA q : q.element)
                      IN take(orderByDesc(questions,
                                          LAMBDA q : getNumericAttribute(doc, q, "max-score", NaN)),
                              IF sectionMaxAnswers = null THEN Len(questions)
                              ELSE sectionMaxAnswers[1])))
      maxScore == countMaxScore(doc, questionsWithHighestMaxScoresPerSection, examMaxAnswers)
  IN attr(doc, exam.element, "max-score", maxScore)

countMaxScores(doc, exam) == countExamMaxScore(countSectionMaxScores(doc, exam), exam)

----------------------------------------------------------------------------
(* Numbering.  A display-number is the sequence of its dot-separated       *)
(* parts: "2.1.A" is <<"2", "1", "A">>.                                    *)

alphabet ==
  <<"A", "B", "C", "D", "E", "F", "G", "H", "I", "J", "K", "L", "M", "N", "O", "P", "Q", "R",
    "S", "T", "U", "V", "W", "X", "Y", "Z", "Å", "Ä", "Ö">>

\* alphabet[i] of the code (0-based): undefined beyond the last letter, which
\* a template literal or an attribute value spells "undefined"
letter(i) == IF i + 1 \in DOMAIN alphabet THEN alphabet[i + 1] ELSE undefined

\* the attr calls of one pass, as pairs <<element, value>>: the elements the
\* pass writes are distinct, so the order of its calls does not show
setAttributes(doc, name, writes) ==
  [e \in DOMAIN doc |->
     IF \E w \in writes : w[1] = e
     THEN [doc[e] EXCEPT !.attrs =
             (name :> (CHOOSE value \in {w[2] : w \in writes} : <<e, value>> \in writes)) @@ @]
     ELSE doc[e]]

addSectionNumbers(doc, exam) ==
  setAttributes(doc, "display-number",
                {<<exam.sections[i].element, <<ToString(i)>>>> : i \in DOMAIN exam.sections})

RECURSIVE addQuestionNumber(_, _, _)
\* the attr calls of addQuestionNumber(question, index, prefix)
addQuestionNumber(question, index, prefix) ==
  LET displayNumber == prefix \o <<ToString(index + 1)>>
  IN {<<question.element, displayNumber>>}
     \cup UNION {addQuestionNumber(question.childQuestions[i], i - 1, displayNumber) :
                   i \in DOMAIN question.childQuestions}

\* addQuestionNumbers that starts again at 1 in every section
addQuestionNumbersOfSections(doc, exam) ==
  setAttributes(doc, "display-number",
                UNION {UNION {addQuestionNumber(exam.sections[s].questions[i], i - 1, <<>>) :
                                i \in DOMAIN exam.sections[s].questions} :
                         s \in DOMAIN exam.sections})

addQuestionNumbers(doc, exam) ==
  setAttributes(doc, "display-number",
                UNION {addQuestionNumber(exam.topLevelQuestions[i], i - 1, <<>>) :
                         i \in DOMAIN exam.topLevelQuestions})

\* answerNumber that appends the index to the number of a single answer too
answerNumberOfIndex(questionNumber, i, length) == questionNumber \o <<ToString(i + 1)>>

\* answers.length === 1 ? questionNumber : `${questionNumber}.${i + 1}`
answerNumber(questionNumber, i, length) ==
  IF length = 1 THEN questionNumber ELSE questionNumber \o <<ToString(i + 1)>>

RECURSIVE addAnswerNumber(_, _)
\* the attr calls of addAnswerNumber(question)
addAnswerNumber(doc, question) ==
  LET questionNumber == getAttribute(doc, question.element, "display-number", <<undefined>>)
      answers == question.answers
  IN {<<answers[i].element, answerNumber(questionNumber, i - 1, Len(answers))>> :
        i \in DOMAIN answers}
     \cup UNION {addAnswerNumber(doc, question.childQuestions[i]) :
                   i \in DOMAIN question.childQuestions}

addAnswerNumbers(doc, exam) ==
  setAttributes(doc, "display-number",
                UNION {addAnswerNumber(doc, exam.topLevelQuestions[i]) :
                         i \in DOMAIN exam.topLevelQuestions})

\* element.find('./e:external-material/e:attachment')
externalAttachments(doc, element) ==
  flatten([i \in 1..Len(findChildren(doc, element, {"external-material"})) |->
             findChildren(doc, findChildren(doc, element, {"external-material"})[i],
                          {"attachment"})])

\* the attr calls that give the attachments prefix + letter, in their order
letterAttachments(doc, attachments, prefix) ==
  {<<attachments[i], prefix \o <<letter(i - 1)>>>> : i \in DOMAIN attachments}

addAttachmentNumbers(doc, exam) ==
  setAttributes(doc, "display-number",
                letterAttachments(doc, externalAttachments(doc, exam.element), <<>>)
                \cup UNION {LET question == exam.questions[i].element
                            IN letterAttachments(doc, externalAttachments(doc, question),
                                                 getAttribute(doc, question, "display-number",
                                                              <<undefined>>)) :
                              i \in DOMAIN exam.questions})

----------------------------------------------------------------------------
(* Redaction, attachments, formulas and media metadata.  Comments and text *)
(* nodes are not part of the modelled tree, so removeComments and          *)
(* removeTableWhitespaceNodes leave it as it is.                           *)

\* options.removeCorrectAnswers, read as a condition
redacts(opts) ==
  "removeCorrectAnswers" \in DOMAIN opts /\ opts.removeCorrectAnswers = TRUE

\* removeCorrectAnswer that redacts the choice and dropdown answers only
removeCorrectAnswerOfChoices(doc, element) ==
  IF doc[element].name \in {"choice-answer", "dropdown-answer"}
  THEN LET F[i \in 0..Len(findAll(doc, choiceAnswerOptionTypes))] ==
             IF i = 0 THEN doc
             ELSE removeAttr(F[i - 1], findAll(doc, choiceAnswerOptionTypes)[i], "score")
       IN F[Len(findAll(doc, choiceAnswerOptionTypes))]
  ELSE doc

\* one turn of the loop of removeCorrectAnswers; the XPath of the options
\* starts with //, at the root of the document
removeCorrectAnswer(doc, element) ==
  IF doc[element].name \in {"choice-answer", "dropdown-answer"}
  THEN LET F[i \in 0..Len(findAll(doc, choiceAnswerOptionTypes))] ==
             IF i = 0 THEN doc
             ELSE removeAttr(F[i - 1], findAll(doc, choiceAnswerOptionTypes)[i], "score")
       IN F[Len(findAll(doc, choiceAnswerOptionTypes))]
  ELSE IF doc[element].name = "scored-text-answer"
  THEN LET accepted == find(doc, element, {"accepted-answer"})
           F[i \in 0..Len(accepted)] == IF i = 0 THEN doc ELSE remove(F[i - 1], accepted[i])
       IN F[Len(accepted)]
  ELSE doc

removeCorrectAnswers(doc, exam) ==
  LET F[i \in 0..Len(exam.answers)] ==
        IF i = 0 THEN doc ELSE removeCorrectAnswer(F[i - 1], exam.answers[i].element)
  IN F[Len(exam.answers)]

\* //e:*[@hidden=true()]: a node-set compared with a boolean is true when it
\* is not empty, whatever the attribute's text
removeHiddenElements(doc) ==
  LET hidden == SelectSeq(findAllElements(doc), LAMBDA e : hasAttribute(doc, e, "hidden"))
      F[i \in 0..Len(hidden)] == IF i = 0 THEN doc ELSE remove(F[i - 1], hidden[i])
  IN F[Len(hidden)]

removeHvpMetadata(doc) ==
  LET found == find(doc, root, {"exam-grading-instruction", "question-grading-instruction",
                                "answer-grading-instruction", "audio-transcription"})
      F[i \in 0..Len(found)] == IF i = 0 THEN doc ELSE remove(F[i - 1], found[i])
  IN F[Len(found)]

attachmentTypes == {"audio", "audio-test", "file", "image", "video"}

addRestrictedAudioMetadata(doc, attachments) ==
  LET audios == SelectSeq(attachments,
                          LAMBDA a : byName(doc, a, {"audio"}) /\ hasAttribute(doc, a, "times"))
      F[i \in 0..Len(audios)] ==
        IF i = 0 THEN doc ELSE attr(F[i - 1], audios[i], "restricted-audio-id", Num(i - 1))
  IN F[Len(audios)]

\* the formulas renderFormulas renders
formulas(doc) == findAll(doc, {"formula"})

\* _.join(array, separator) of a string's characters
join(array, separator) ==
  [i \in 1..(IF array = <<>> THEN 0 ELSE 2 * Len(array) - 1) |->
     IF i % 2 = 1 THEN array[(i + 1) \div 2] ELSE separator]

\* getMediaMetadata, the caller's collaborator
getMediaMetadata(src, type) == [of |-> src, type |-> type]

\* the kind addMediaMetadata looks an attachment up as
mediaType(name) == IF name = "audio-test" THEN "audio" ELSE name

hasMediaMetadata(doc, attachment) ==
  doc[attachment].name \in {"audio", "video", "image", "audio-test"}

\* addMediaMetadata: the state after the first n attachments, as the
\* document, the cache of the memoized getMediaMetadata and the calls made
addMediaMetadata(doc, attachments, cache, log) ==
  LET F[i \in 0..Len(attachments)] ==
        IF i = 0 THEN [doc |-> doc, cache |-> cache, calls |-> log]
        ELSE LET before == F[i - 1]
                 attachment == attachments[i]
                 type == mediaType(doc[attachment].name)
                 src == getAttribute(doc, attachment, "src", <<>>)
                 key == join(src, type)
                 hit == key \in DOMAIN before.cache
                 metadata == IF hit THEN before.cache[key] ELSE getMediaMetadata(src, type)
             IN IF ~hasMediaMetadata(doc, attachment) THEN before
                ELSE [doc |-> IF type = "audio"
                              THEN attr(before.doc, attachment, "duration", metadata)
                              ELSE attr(attr(before.doc, attachment, "width", metadata),
                                        attachment, "height", metadata),
                      cache |-> IF hit THEN before.cache
                                ELSE [k \in DOMAIN before.cache \cup {key} |->
                                        IF k = key THEN metadata ELSE before.cache[k]],
                      calls |-> IF hit THEN before.calls
                                ELSE Append(before.calls,
                                            [fn |-> "getMediaMetadata", args |-> <<src, type>>,
                                             returns |-> metadata])]
  IN F[Len(attachments)]

isVisibleInGradingInstructions(doc, attachment) ==
  queryAncestors(doc, attachment,
                 {e \in 1..Len(doc) :
                    doc[e].name \in {"answer-grading-instruction", "choice-answer-option",
                                     "dropdown-answer-option", "exam-grading-instruction",
                                     "question-grading-instruction", "hint", "question-title",
                                     "question-instruction"}}) # 0

isWithinGradingInstructions(doc, attachment) ==
  queryAncestors(doc, attachment,
                 {e \in 1..Len(doc) :
                    doc[e].name \in {"exam-grading-instruction", "question-grading-instruction",
                                     "answer-grading-instruction"}}) # 0

mkAttachment(filename, restricted, visibleInGradingInstructions, withinGradingInstruction) ==
  [filename |-> filename, restricted |-> restricted,
   visibleInGradingInstructions |-> visibleInGradingInstructions,
   withinGradingInstruction |-> withinGradingInstruction]

\* uniqWith that takes entries of one filename for equal
uniqWithFilename(s) ==
  LET F[i \in 0..Len(s)] ==
        IF i = 0 THEN <<>>
        ELSE IF \E j \in 1..Len(F[i - 1]) : F[i - 1][j].filename = s[i].filename THEN F[i - 1]
             ELSE Append(F[i - 1], s[i])
  IN F[Len(s)]

\* _.uniqWith(s, _.isEqual): the first of equal entries stays
uniqWith(s) ==
  LET F[i \in 0..Len(s)] ==
        IF i = 0 THEN <<>>
        ELSE IF \E j \in 1..Len(F[i - 1]) : F[i - 1][j] = s[i] THEN F[i - 1]
             ELSE Append(F[i - 1], s[i])
  IN F[Len(s)]

collectAttachments(doc, attachments) ==
  LET maybeCustomStylesheet == getAttribute(doc, root, "exam-stylesheet", null)
  IN uniqWith([i \in 1..Len(attachments) |->
                 mkAttachment(getAttribute(doc, attachments[i], "src", <<undefined>>),
                              hasAttribute(doc, attachments[i], "times"),
                              isVisibleInGradingInstructions(doc, attachments[i]),
                              isWithinGradingInstructions(doc, attachments[i]))]
              \o (IF maybeCustomStylesheet \notin {null, <<>>}
                  THEN <<mkAttachment(maybeCustomStylesheet, FALSE, FALSE, FALSE)>>
                  ELSE <<>>))

\* the MasteringResult of a version, without the grading structure, the
\* translation and the title
result(doc, attachments, language, type) ==
  [attachments |-> collectAttachments(doc, attachments),
   date |-> getAttribute(doc, root, "date", null),
   dayCode |-> getAttribute(doc, root, "day-code", null),
   examCode |-> getAttribute(doc, root, "exam-code", null),
   examUuid |-> getAttribute(doc, root, "exam-uuid", undefined),
   language |-> language,
   type |-> type,
   xml |-> doc]

----------------------------------------------------------------------------
(* parseExam(xml, true): validation.  An error is the record of its        *)
(* message and of the element whose line it carries (0: none).             *)

htmlLikeExamElements == {"hints", "scored-text-answers", "localization", "attachment", "audio-group"}

examCodesRequiringDayCode == {"A", "O"}

mkError(message, element) == [message |-> message, line |-> element]

\* ./render-formula: what the renderer settles a formula's markup with.  It
\* resolves with the svg, or rejects with an array of error strings, or
\* rejects with another value; renderer holds the markups it rejects.
renderFormula(rendering, text) ==
  IF text \notin DOMAIN rendering THEN [svg |-> <<"svg", text>>]
  ELSE IF rendering[text] = "errors" THEN [errors |-> <<"Undefined control sequence">>]
  ELSE [error |-> "Error"]

\* errors.join(', ') of an array of strings
joinErrors(errors) ==
  [i \in 1..(IF errors = <<>> THEN 0 ELSE 2 * Len(errors) - 1) |->
     IF i % 2 = 1 THEN errors[(i + 1) \div 2] ELSE ", "]

\* one turn of the loop of renderFormulas: the document, and what the turn
\* throws; a rejection that is not an array of strings is caught and dropped
renderFormulas(rendering, doc, formula) ==
  LET settled == renderFormula(rendering, doc[formula].text)
  IN IF "svg" \in DOMAIN settled
     THEN [doc |-> attr(doc, formula, "svg", settled.svg), thrown |-> <<>>]
     ELSE IF "errors" \in DOMAIN settled
          THEN [doc |-> doc, thrown |-> <<mkError(joinErrors(settled.errors), formula)>>]
          ELSE [doc |-> doc, thrown |-> <<>>]

\* doc.validate(schema) fails: the first error above the warning level is
\* thrown; without one, reading error.message throws a TypeError
schemaError(errors) ==
  LET serious == SelectSeq(errors, LAMBDA err : err.level > 1)
  IN IF serious = <<>> THEN <<[message |-> "TypeError", line |-> 0]>>
     ELSE <<[message |-> Head(serious).message, line |-> Head(serious).line]>>

\* what the body of the loop over the answers throws for one answer
answerError(doc, answer) ==
  LET maybeParentQuestion ==
        queryAncestors(doc, answer,
                       {e \in 1..Len(doc) :
                          doc[e].ns = "e" /\ doc[e].name \notin htmlLikeExamElements})
      childQuestions == find(doc, maybeParentQuestion, {"question"})
      maxScore == getNumericAttribute(doc, answer, "max-score", null)
      acceptedAnswers == findChildren(doc, answer, {"accepted-answer"})
  IN IF maybeParentQuestion = 0 \/ doc[maybeParentQuestion].name # "question"
     THEN <<mkError("All answers must be within a question.", answer)>>
     ELSE IF childQuestions # <<>>
     THEN <<mkError("A question may not contain both answer elements and child questions",
                    Head(childQuestions))>>
     ELSE IF doc[answer].name = "scored-text-answer" /\ maxScore = null
             /\ acceptedAnswers = <<>>
     THEN <<mkError("A scored-text-answer element must contain either a max-score attribute or contain accepted-answers",
                    answer)>>
     ELSE IF doc[answer].name = "scored-text-answer" /\ maxScore # null
             /\ \E a \in Range(acceptedAnswers) :
                  gt(getNumericAttribute(doc, a, "score", NaN), maxScore)
     THEN <<mkError("The max-score of a scored-text-answer cannot be smaller than the score of some of its accepted-answers",
                    answer)>>
     ELSE <<>>

\* dayCodeError that lets an exam-code go without its day-code
dayCodeErrorOfGiven(doc) ==
  LET examCode == getAttribute(doc, 1, "exam-code", "")
      dayCode == getAttribute(doc, 1, "day-code", "")
  IN IF dayCode # "" /\ examCode \notin examCodesRequiringDayCode
     THEN <<mkError("Invalid exam-code for day-code", 1)>> ELSE <<>>

\* the day-code check
dayCodeError(doc) ==
  LET examCode == getAttribute(doc, 1, "exam-code", "")
      dayCode == getAttribute(doc, 1, "day-code", "")
  IN IF dayCode # ""
     THEN IF examCode \notin examCodesRequiringDayCode
          THEN <<mkError("Invalid exam-code for day-code", 1)>> ELSE <<>>
     ELSE IF examCode \in examCodesRequiringDayCode
          THEN <<mkError("Invalid empty day-code for exam-code", 1)>> ELSE <<>>

\* the check of the audio elements of external material
audioError(doc) ==
  LET audiosInExternalMaterialWithTimes ==
        SelectSeq(descendants(doc, 1),
                  LAMBDA e : /\ isE(doc, e, {"audio"})
                             /\ hasAttribute(doc, e, "times")
                             /\ \E a \in Range(ancestors(doc, e)) :
                                  isE(doc, a, {"external-material"}))
  IN IF audiosInExternalMaterialWithTimes # <<>>
     THEN <<mkError("External material must not contain audio with times attribute",
                    Head(audiosInExternalMaterialWithTimes))>>
     ELSE <<>>

\* assertExamIsValid(doc): what it throws, <<>> when it returns
assertExamIsValid(doc, errors) ==
  LET ofAnswers == flatten([i \in 1..Len(find(doc, 1, answerTypes)) |->
                              answerError(doc, find(doc, 1, answerTypes)[i])])
  IN IF errors # <<>> THEN schemaError(errors)
     ELSE IF ofAnswers # <<>> THEN <<Head(ofAnswers)>>
     ELSE IF dayCodeError(doc) # <<>> THEN dayCodeError(doc)
     ELSE audioError(doc)

\* parseExam that never validates
parseExamOnly(doc, errors, validate) == <<>>

\* parseExam(xml, validate)
parseExam(doc, errors, validate) == IF validate THEN assertExamIsValid(doc, errors) ELSE <<>>

----------------------------------------------------------------------------
(* masterExam and the steps of masterExamVersion.                          *)
(*                                                                         *)
(* xml      the authoring document handed to masterExam                    *)
(* options  the MasteringOptions handed to masterExam (a function of the   *)
(*          keys it holds)                                                 *)
(* validationErrors  what doc.validate(schema) reports for xml (the schema *)
(*          is a collaborator: its verdict is an input)                    *)
(* sha256   the digests computed so far (see createHash)                   *)
(* memoizedGetMediaMetadata  the cache of _.memoize(getMediaMetadata)      *)
(* calls    the calls made to the collaborators generateUuid, the formula  *)
(*          renderer and getMediaMetadata, in the order they are made      *)
(* promise  the state of the promise masterExam returns                    *)
(* error    the error the promise is rejected with, if it is               *)
(* version  per declared exam version: its language and type, its own      *)
(*          document, the parsed structure, the counter of its generateId  *)
(*          and the pass it is to run next                                 *)

examVersions(doc) ==
  LET declared == flatten(map(findChildren(doc, root, {"exam-versions"}),
                              LAMBDA vs : findChildren(doc, vs, {"exam-version"})))
  IN map(declared,
         LAMBDA e : [language |-> getAttribute(doc, e, "lang", ""),
                     type |-> CHOOSE t \in getAttribute(doc, e, "exam-type", {"normal"}) : TRUE])

\* exam is not assigned before parseExamStructure has run
noExam ==
  [element |-> root, sections |-> <<>>, questions |-> <<>>, topLevelQuestions |-> <<>>,
   answers |-> <<>>]

\* generateUuid, the caller's collaborator: every call returns a new value
generateUuid(n) == <<"uuid", n>>

\* metadataOf that asks for one of exam-code and date only
metadataOfEither(doc, language, type) ==
  LET examCode == getAttribute(doc, root, "exam-code", null)
      date == getAttribute(doc, root, "date", null)
  IN IF hasAttribute(doc, root, "exam-code") \/ hasAttribute(doc, root, "date")
     THEN <<[examCode |-> examCode, date |-> date, language |-> language, type |-> type]>>
     ELSE <<>>

\* the metadata addExamMetadata calls generateUuid with (<<>>: undefined)
metadataOf(doc, language, type) ==
  LET examCode == getAttribute(doc, root, "exam-code", null)
      date == getAttribute(doc, root, "date", null)
  IN IF hasAttribute(doc, root, "exam-code") /\ hasAttribute(doc, root, "date")
     THEN <<[examCode |-> examCode, date |-> date, language |-> language, type |-> type]>>
     ELSE <<>>

\* the passes between two suspension points run to completion: a version
\* takes a step only while no other version is inside such a run
suspended(v) ==
  version[v].pc \in {"addExamMetadata", "renderFormulas", "addMediaMetadata", "done", "failed"}

\* the versions go on when Promise.all has rejected with the error of one
mayRun(v) ==
  /\ promise \in {"pending", "rejected"}
  /\ v \in 1..Len(version)
  /\ \A w \in 1..Len(version) : w # v => suspended(w)

step(v, pc, next, doc) ==
  /\ mayRun(v)
  /\ version[v].pc = pc
  /\ version' = [version EXCEPT ![v].pc = next, ![v].doc = doc]

\* masterExam: validation, then masterExamVersion is called for every
\* declared version in turn; each call runs up to its first suspension, the
\* await of generateUuid inside addExamMetadata
MasterExam ==
  /\ promise = "idle"
  /\ LET thrown == parseExam(xml, validationErrors, TRUE)
         declared == examVersions(xml)
     IN IF thrown # <<>>
        THEN /\ promise' = "rejected"
             /\ error' = thrown
             /\ UNCHANGED <<version, calls>>
        ELSE /\ promise' = "pending"
             /\ calls' = [i \in 1..Len(declared) |->
                            [fn |-> "generateUuid",
                             args |-> metadataOf(xml, declared[i].language, declared[i].type),
                             returns |-> generateUuid(i)]]
             /\ version' = [i \in 1..Len(declared) |->
                              [language |-> declared[i].language, type |-> declared[i].type,
                               doc |-> xml, exam |-> noExam, current |-> mkGenerateId,
                               examUuid |-> generateUuid(i), attachments |-> <<>>,
                               index |-> 1, result |-> <<>>, pc |-> "addExamMetadata"]]
             /\ UNCHANGED error
  /\ UNCHANGED <<inputs, around, results, sha256, memoizedGetMediaMetadata>>

AddExamMetadata(v) ==
  /\ step(v, "addExamMetadata", "addQuestionIds",
          addExamMetadata(version[v].doc, version[v].examUuid,
                          version[v].language, version[v].type))
  /\ UNCHANGED <<inputs, around, results, sha256, memoizedGetMediaMetadata, calls, promise, error>>

AddQuestionIds(v) ==
  /\ mayRun(v)
  /\ version[v].pc = "addQuestionIds"
  /\ LET r == addQuestionIds(version[v].doc, version[v].current)
     IN version' = [version EXCEPT ![v].pc = "applyLocalizations",
                                   ![v].doc = r.doc, ![v].current = r.current]
  /\ UNCHANGED <<inputs, around, results, sha256, memoizedGetMediaMetadata, calls, promise, error>>

ApplyLocalizations(v) ==
  /\ step(v, "applyLocalizations", "parseExamStructure",
          applyLocalizations(version[v].doc, version[v].language, version[v].type))
  /\ UNCHANGED <<inputs, around, results, sha256, memoizedGetMediaMetadata, calls, promise, error>>

ParseExamStructure(v) ==
  /\ mayRun(v)
  /\ version[v].pc = "parseExamStructure"
  /\ version' = [version EXCEPT ![v].pc = "addYoCustomizations",
                                ![v].exam = parseExamStructure(version[v].doc)]
  /\ UNCHANGED <<inputs, around, results, sha256, memoizedGetMediaMetadata, calls, promise, error>>

AddYoCustomizations(v) ==
  /\ step(v, "addYoCustomizations", "addSectionNumbers", addYoCustomizations(version[v].doc))
  /\ UNCHANGED <<inputs, around, results, sha256, memoizedGetMediaMetadata, calls, promise, error>>

\* addSectionNumbers, addQuestionNumbers, addAnswerNumbers, addAttachmentNumbers
AddDisplayNumbers(v) ==
  /\ step(v, "addSectionNumbers", "shuffleAnswerOptions",
          addAttachmentNumbers(
            addAnswerNumbers(
              addQuestionNumbers(addSectionNumbers(version[v].doc, version[v].exam),
                                 version[v].exam),
              version[v].exam),
            version[v].exam))
  /\ UNCHANGED <<inputs, around, results, sha256, memoizedGetMediaMetadata, calls, promise, error>>

\* the digests shuffleAnswerOptions is about to compute
hashed(v, secret) ==
  {<<answerKeyOf(version[v].doc, a), secret>> :
     a \in Range(shuffledAnswers(version[v].doc, version[v].exam))}

optionCount(v, key) ==
  LET a == CHOOSE a \in Range(shuffledAnswers(version[v].doc, version[v].exam)) :
             answerKeyOf(version[v].doc, a) = key[1]
  IN Len(findChildren(version[v].doc, a, choiceAnswerOptionTypes))

ShuffleAnswerOptions(v) ==
  LET opts == optionsWithDefaults(options)
      secret == opts.multiChoiceShuffleSecret
      fresh == IF hasShuffleSecret(opts) THEN hashed(v, secret) \ DOMAIN sha256 ELSE {}
  IN /\ mayRun(v)
     /\ version[v].pc = "shuffleAnswerOptions"
     /\ \E digests \in [fresh -> UNION {Perms(optionCount(v, key)) : key \in fresh}] :
          /\ \A key \in fresh : digests[key] \in Perms(optionCount(v, key))
          /\ sha256' = [key \in DOMAIN sha256 \cup fresh |->
                          IF key \in fresh THEN digests[key] ELSE sha256[key]]
          /\ version' =
               [version EXCEPT
                  ![v].pc = "addAnswerOptionIds",
                  ![v].doc = IF hasShuffleSecret(opts)
                             THEN shuffleAnswerOptions(@, version[v].exam, secret, sha256')
                             ELSE @]
     /\ UNCHANGED <<inputs, around, results, memoizedGetMediaMetadata, calls, promise, error>>

AddAnswerOptionIds(v) ==
  /\ mayRun(v)
  /\ version[v].pc = "addAnswerOptionIds"
  /\ LET r == addAnswerOptionIds(version[v].doc, version[v].exam, version[v].current)
     IN version' = [version EXCEPT ![v].pc = "updateMaxScoresToAnswers",
                                   ![v].doc = r.doc, ![v].current = r.current]
  /\ UNCHANGED <<inputs, around, results, sha256, memoizedGetMediaMetadata, calls, promise, error>>

UpdateMaxScoresToAnswers(v) ==
  /\ step(v, "updateMaxScoresToAnswers", "countSectionMaxAndMinAnswers",
          updateMaxScoresToAnswers(version[v].doc, version[v].exam))
  /\ UNCHANGED <<inputs, around, results, sha256, memoizedGetMediaMetadata, calls, promise, error>>

CountSectionMaxAndMinAnswers(v) ==
  /\ step(v, "countSectionMaxAndMinAnswers", "countMaxScores",
          countSectionMaxAndMinAnswers(version[v].doc, version[v].exam))
  /\ UNCHANGED <<inputs, around, results, sha256, memoizedGetMediaMetadata, calls, promise, error>>

CountMaxScores(v) ==
  /\ step(v, "countMaxScores", "removeCorrectAnswers",
          countMaxScores(version[v].doc, version[v].exam))
  /\ UNCHANGED <<inputs, around, results, sha256, memoizedGetMediaMetadata, calls, promise, error>>

\* removeComments ... addRestrictedAudioMetadata; the version then waits for
\* renderFormulas
RemoveCorrectAnswers(v) ==
  LET d1 == IF redacts(optionsWithDefaults(options))
            THEN removeHvpMetadata(removeHiddenElements(
                   removeCorrectAnswers(version[v].doc, version[v].exam)))
            ELSE version[v].doc
      attachments == find(d1, root, attachmentTypes)
  IN /\ mayRun(v)
     /\ version[v].pc = "removeCorrectAnswers"
     /\ version' = [version EXCEPT ![v].pc = "renderFormulas",
                                   ![v].doc = addRestrictedAudioMetadata(d1, attachments),
                                   ![v].attachments = attachments]
     /\ UNCHANGED <<inputs, around, results, sha256, memoizedGetMediaMetadata, calls, promise, error>>

\* await renderFormulas: one formula at a time is handed to the renderer,
\* in document order; an error thrown there is the error of the version,
\* and Promise.all rejects with the error of the first version that fails
RenderFormulas(v) ==
  LET found == formulas(version[v].doc)
      i == version[v].index
      turn == renderFormulas(renderer, version[v].doc, found[i])
  IN /\ mayRun(v)
     /\ version[v].pc = "renderFormulas"
     /\ IF i > Len(found)
        THEN /\ version' = [version EXCEPT ![v].pc = "addMediaMetadata", ![v].index = 1]
             /\ UNCHANGED <<calls, promise, error>>
        ELSE /\ calls' = Append(calls,
                               [fn |-> "renderFormula", args |-> <<found[i]>>,
                                returns |-> renderFormula(renderer, version[v].doc[found[i]].text)])
             /\ IF turn.thrown # <<>>
                THEN /\ version' = [version EXCEPT ![v].pc = "failed"]
                     /\ promise' = "rejected"
                     /\ error' = IF promise = "pending" THEN turn.thrown ELSE error
                ELSE /\ version' = [version EXCEPT ![v].doc = turn.doc, ![v].index = i + 1]
                     /\ UNCHANGED <<promise, error>>
     /\ UNCHANGED <<inputs, around, results, sha256, memoizedGetMediaMetadata>>

\* the attachments addMediaMetadata has a lookup to await for, from the
\* n-th on
awaited(doc, attachments, n) ==
  {i \in n..Len(attachments) : hasMediaMetadata(doc, attachments[i])}

\* await addMediaMetadata: one lookup at a time, in the order of the
\* attachments; after the last one, the result of the version
AddMediaMetadata(v) ==
  LET waiting == awaited(version[v].doc, version[v].attachments, version[v].index)
      i == CHOOSE i \in waiting : \A j \in waiting : i <= j
      r == addMediaMetadata(version[v].doc, <<version[v].attachments[i]>>,
                            memoizedGetMediaMetadata, calls)
  IN /\ mayRun(v)
     /\ version[v].pc = "addMediaMetadata"
     /\ IF waiting = {}
        THEN /\ version' = [version EXCEPT
                              ![v].pc = "done",
                              ![v].result = <<result(version[v].doc, version[v].attachments,
                                                     version[v].language, version[v].type)>>]
             /\ UNCHANGED <<memoizedGetMediaMetadata, calls>>
        ELSE /\ memoizedGetMediaMetadata' = r.cache
             /\ calls' = r.calls
             /\ version' = [version EXCEPT ![v].doc = r.doc, ![v].index = i + 1]
     /\ UNCHANGED <<inputs, around, results, sha256, promise, error>>

\* Promise.allSettled in the place of Promise.all: masterExam is fulfilled
\* with the results of the versions that have one
ResolveSettled ==
  /\ promise \in {"pending", "rejected"}
  /\ \A v \in 1..Len(version) : version[v].pc \in {"done", "failed"}
  /\ promise' = "resolved"
  /\ results' = flatten([v \in 1..Len(version) |-> version[v].result])
  /\ UNCHANGED <<inputs, around, sha256, memoizedGetMediaMetadata, calls, error, version>>

\* Promise.all: every version has returned its result, and the promise of
\* masterExam is fulfilled with the results in the order of the versions
Resolve ==
  /\ promise = "pending"
  /\ \A v \in 1..Len(version) : version[v].pc = "done"
  /\ promise' = "resolved"
  /\ results' = [v \in 1..Len(version) |-> version[v].result[1]]
  /\ UNCHANGED <<inputs, around, sha256, memoizedGetMediaMetadata, calls, error, version>>

\* const x = ...; Then(x): the value is computed before it is used
const(x, Then(_)) == CHOOSE r \in {Then(y) : y \in {x}} : TRUE

\* renderFormulas as one call: the turns of its loop up to the first that
\* throws
renderAll(rendering, doc) ==
  forEach([doc |-> doc, thrown |-> <<>>], formulas(doc),
          LAMBDA turn, formula :
            IF turn.thrown # <<>> THEN turn ELSE renderFormulas(rendering, turn.doc, formula))

\* masterExamVersion as one call that no other version runs beside: the
\* passes in their order, a getMediaMetadata that has not been called, and
\* the result it returns (none when it throws)
masterExamVersion(doc, language, type, examUuid, opts, oracle, rendering) ==
  const(addQuestionIds(addExamMetadata(doc, examUuid, language, type), mkGenerateId),
  LAMBDA questionIds :
  const(applyLocalizations(questionIds.doc, language, type), LAMBDA own :
  const(parseExamStructure(own), LAMBDA exam :
  const(addYoCustomizations(own), LAMBDA customized :
  const(addAttachmentNumbers(
          addAnswerNumbers(addQuestionNumbers(addSectionNumbers(customized, exam), exam), exam),
          exam), LAMBDA numbers :
  const(IF hasShuffleSecret(opts)
        THEN shuffleAnswerOptions(numbers, exam, opts.multiChoiceShuffleSecret, oracle)
        ELSE numbers, LAMBDA shuffled :
  const(addAnswerOptionIds(shuffled, exam, questionIds.current), LAMBDA optionIds :
  const(updateMaxScoresToAnswers(optionIds.doc, exam), LAMBDA maxScores :
  const(countSectionMaxAndMinAnswers(maxScores, exam), LAMBDA maxAndMinAnswers :
  const(countMaxScores(maxAndMinAnswers, exam), LAMBDA scores :
  const(IF redacts(opts)
        THEN removeHvpMetadata(removeHiddenElements(removeCorrectAnswers(scores, exam)))
        ELSE scores, LAMBDA redacted :
  const(find(redacted, root, attachmentTypes), LAMBDA attachments :
  const(renderAll(rendering, addRestrictedAudioMetadata(redacted, attachments)), LAMBDA rendered :
  const(addMediaMetadata(rendered.doc, attachments, NoAttrs, <<>>), LAMBDA media :
    IF rendered.thrown # <<>> THEN <<>>
    ELSE <<result(media.doc, attachments, language, type)>>))))))))))))))

MasterExamVersion(v) ==
  \/ AddExamMetadata(v)
  \/ AddQuestionIds(v)
  \/ ApplyLocalizations(v)
  \/ ParseExamStructure(v)
  \/ AddYoCustomizations(v)
  \/ AddDisplayNumbers(v)
  \/ ShuffleAnswerOptions(v)
  \/ AddAnswerOptionIds(v)
  \/ UpdateMaxScoresToAnswers(v)
  \/ CountSectionMaxAndMinAnswers(v)
  \/ CountMaxScores(v)
  \/ RemoveCorrectAnswers(v)
  \/ RenderFormulas(v)
  \/ AddMediaMetadata(v)

Next ==
  \/ MasterExam
  \/ \E v \in 1..Len(version) : MasterExamVersion(v)
  \/ Resolve

----------------------------------------------------------------------------
(* createOfflineExam (packages/rendering): masterExam is called without    *)
(* options, and every result is written to a directory of its own name.    *)
(* A name is the sequence of the parts it is put together from.            *)

\* language.replace(/-.*$/, ''): what stands before the first hyphen
shortLanguageCode(language) ==
  CASE language = "fi-FI" -> "fi"
    [] language = "sv-FI" -> "sv"
    [] OTHER -> language

\* path.basename(path.dirname(examFile))
examDirectory == "exam"

\* a field of a result is neither null nor empty; it is null when the root
\* of the result's document has no such attribute
truthy(r, name) == hasAttribute(r.xml, root, name) /\ r.xml[root].attrs[name] # ""

\* the dirname of a result; a date that is null is written as "null"
dirname(r) ==
  IF truthy(r, "exam-code")
  THEN (IF truthy(r, "date") THEN <<r.date, "_">>
        ELSE IF hasAttribute(r.xml, root, "date") THEN <<>> ELSE <<"null">>)
       \o <<r.examCode>>
       \o (IF truthy(r, "day-code") THEN <<"_", r.dayCode>> ELSE <<>>)
       \o <<"_", shortLanguageCode(r.language)>>
  ELSE <<examDirectory, "_", r.language, "_offline">>

\* one turn of the loop over the results of masterExam: the offline version
\* is built in its directory, its attachments are copied there, and the
\* directory joins the list
CreateOfflineExam ==
  /\ promise = "resolved"
  /\ Len(examOutputDirectories) < Len(results)
  /\ examOutputDirectories' =
       Append(examOutputDirectories, dirname(results[Len(examOutputDirectories) + 1]))
  /\ UNCHANGED <<inputs, gradingAnswer, sha256, memoizedGetMediaMetadata, calls, promise, error,
                 results, version>>

NextOffline == Next \/ CreateOfflineExam

----------------------------------------------------------------------------
(* GradingAnswer (packages/core): the length of an answer and, behind it,   *)
(* the warning of a surplus over the maximum length.                       *)

\* no answer is shown
NoAnswer == <<>>

\* !maxCharacters: undefined (<<>>), null and 0 are no maximum
hasMaxLength(maxCharacters) == maxCharacters \notin {<<>>, null, Num(0)}

\* Math.floor((100 * characters) / maxCharacters - 100)
countSurplusPercentage(characters, maxCharacters) ==
  IF ~hasMaxLength(maxCharacters) \/ characters <= maxCharacters[1] THEN 0
  ELSE (100 * characters) \div maxCharacters[1] - 100

\* the component renders the answer it is given: the count of its
\* characters, and the surplus when the percentage is above 0
GradingAnswer ==
  /\ gradingAnswer # NoAnswer
  /\ gradingAnswer[1].rendered = <<>>
  /\ LET characterCount == gradingAnswer[1].characterCount
         maxLength == gradingAnswer[1].maxLength
         percentage == countSurplusPercentage(characterCount, maxLength)
     IN gradingAnswer' =
          <<[gradingAnswer[1] EXCEPT
               !.rendered = <<[count |-> characterCount,
                               surplus |-> IF percentage > 0
                                           THEN <<[maxLength |-> maxLength,
                                                   percentage |-> percentage]>>
                                           ELSE <<>>]>>]>>
  /\ UNCHANGED <<inputs, examOutputDirectories, sha256, memoizedGetMediaMetadata, calls, promise,
                 error, results, version>>

----------------------------------------------------------------------------
(* Authoring documents.                                                    *)

ExamVersion(language, type) ==
  E("exam-version",
    IF type = "normal" THEN "lang" :> language
    ELSE ("lang" :> language) @@ ("exam-type" :> {type}),
    <<>>)

ExamVersions(vs) ==
  E("exam-versions", NoAttrs, [i \in 1..Len(vs) |-> ExamVersion(vs[i].language, vs[i].type)])

Exam(attrs, vs, sections) == E("exam", attrs, <<ExamVersions(vs)>> \o sections)

TextAnswer(maxScore) == E("text-answer", "max-score" :> Num(maxScore), <<>>)

Seqs(S, n) == UNION {[1..k -> S] : k \in 1..n}

FiSv == <<[language |-> "fi-FI", type |-> "normal"], [language |-> "sv-FI", type |-> "normal"]>>

FiHi == <<[language |-> "fi-FI", type |-> "normal"],
          [language |-> "fi-FI", type |-> "hearing-impaired"]>>

Fi == <<[language |-> "fi-FI", type |-> "normal"]>>

\* what an author marks content with
Markings ==
  {NoAttrs, "lang" :> "fi-FI", "lang" :> "sv-FI", "exam-type" :> {"hearing-impaired"}}

\* one question whose answers are plain or inside a localization
LocalizedAnswers(vs, marks) ==
  Exam(NoAttrs, vs,
       <<E("section", NoAttrs,
           <<E("question", NoAttrs,
               [i \in 1..Len(marks) |->
                  IF marks[i] = NoAttrs THEN TextAnswer(1)
                  ELSE E("localization", marks[i], <<TextAnswer(1)>>)])>>)>>)

\* one question per answer, the question itself marked
LocalizedQuestions(vs, marks) ==
  Exam(NoAttrs, vs,
       <<E("section", NoAttrs,
           [i \in 1..Len(marks) |-> E("question", marks[i], <<TextAnswer(1)>>)])>>)

LocalizedExams ==
  {LocalizedAnswers(vs, marks) : vs \in {FiSv, FiHi}, marks \in Seqs(Markings, MaxAnswers)}
  \cup
  {LocalizedQuestions(vs, marks) : vs \in {FiSv, FiHi}, marks \in Seqs(Markings, MaxAnswers)}

\* what an author marks an answer option with
OptionMarkings == {NoAttrs, "type" :> "no-answer", "lang" :> "sv-FI"}

ChoiceAnswer(name, attrs, optionAttrs) ==
  E(name, attrs,
    [i \in 1..Len(optionAttrs) |->
       E(IF name = "choice-answer" THEN "choice-answer-option" ELSE "dropdown-answer-option",
         optionAttrs[i], <<>>)])

\* one choice or dropdown answer, in the only question of the only section
ChoiceExams ==
  {Exam(NoAttrs, Fi,
        <<E("section", NoAttrs,
            <<E("question", NoAttrs, <<ChoiceAnswer(name, attrs, optionAttrs)>>)>>)>>) :
     name \in choiceAnswerTypes,
     attrs \in {NoAttrs, "ordering" :> "fixed"},
     optionAttrs \in Seqs(OptionMarkings, MaxOptions)}


\* a choice, dropdown or scored-text answer with the scores of its options
\* or accepted answers (<<>>: the option carries no score)
ScoredAnswer(name, attrs, scores) ==
  E(name, attrs,
    [i \in 1..Len(scores) |->
       E(CASE name = "choice-answer" -> "choice-answer-option"
           [] name = "dropdown-answer" -> "dropdown-answer-option"
           [] OTHER -> "accepted-answer",
         IF scores[i] = <<>> THEN NoAttrs ELSE "score" :> scores[i],
         <<>>)])

Scores == {Num(n) : n \in 0..MaxScore}

\* one answer whose max-score the max-score phase may have to compute; a
\* scored-text-answer has a max-score or an accepted-answer, every
\* accepted-answer has a score, and none above a declared max-score
ScoredExam(name, attrs, scores) ==
  Exam(NoAttrs, Fi,
       <<E("section", NoAttrs,
           <<E("question", NoAttrs, <<ScoredAnswer(name, attrs, scores)>>)>>)>>)

ScoredExams ==
  {ScoredExam(name, attrs, scores) :
     name \in choiceAnswerTypes,
     attrs \in {NoAttrs, "max-score" :> Num(MaxScore)},
     scores \in {<<>>} \cup Seqs(Scores \cup {<<>>}, MaxOptions)}
  \cup
  {ScoredExam("scored-text-answer", NoAttrs, scores) : scores \in Seqs(Scores, MaxOptions)}
  \cup
  {ScoredExam("scored-text-answer", "max-score" :> Num(MaxScore), scores) :
     scores \in {<<>>} \cup Seqs(Scores, MaxOptions)}

Leaf(maxScore) == E("question", NoAttrs, <<TextAnswer(maxScore)>>)

\* the questions of the score documents: two leaves with one answer, a branch of
\* two leaves, a leaf that counts the better of two answers, and a leaf
\* whose choice-answer has no option
Questions ==
  {Leaf(1), Leaf(MaxScore),
   E("question", NoAttrs, <<Leaf(1), Leaf(MaxScore)>>),
   E("question", "max-answers" :> Num(1), <<TextAnswer(1), TextAnswer(MaxScore)>>),
   E("question", NoAttrs, <<ScoredAnswer("choice-answer", NoAttrs, <<>>)>>)}

MaxAnswerss == {NoAttrs} \cup {"max-answers" :> Num(n) : n \in 1..MaxQuestions}

\* a first section of any questions and, optionally, one of two second sections
ScoreExams ==
  {Exam(examAttrs, Fi, <<E("section", attrs, questions)>> \o more) :
     examAttrs \in MaxAnswerss,
     attrs \in MaxAnswerss,
     questions \in Seqs(Questions, MaxQuestions),
     more \in {<<>>,
               <<E("section", NoAttrs, <<Leaf(MaxScore)>>)>>,
               <<E("section", "max-answers" :> Num(1), <<Leaf(1), Leaf(MaxScore)>>)>>}}

\* sections of one or of MaxQuestions questions, with or without a declared
\* max-answers
AnswerSections ==
  {E("section", attrs, [i \in 1..n |-> Leaf(1)]) :
     attrs \in {NoAttrs, "max-answers" :> Num(1), "max-answers" :> Num(MaxQuestions)},
     n \in {1, MaxQuestions}}

AnswerExams ==
  {Exam(examAttrs, Fi, sections) :
     examAttrs \in MaxAnswerss, sections \in Seqs(AnswerSections, MaxSections)}


----------------------------------------------------------------------------
(* Specifications: the same program on different families of documents.    *)

InitOf(exams, optionss, renderers) ==
  /\ xml \in exams
  /\ options \in optionss
  /\ validationErrors = <<>>
  /\ renderer \in renderers
  /\ sha256 = NoAttrs
  /\ memoizedGetMediaMetadata = NoAttrs
  /\ calls = <<>>
  /\ promise = "idle"
  /\ error = <<>>
  /\ results = <<>>
  /\ version = <<>>
  /\ examOutputDirectories = <<>>
  /\ gradingAnswer = NoAnswer

\* a renderer that renders every formula
InitWith(exams, optionss) == InitOf(exams, optionss, {NoAttrs})

NoOptions == NoAttrs

Init == InitWith(LocalizedExams, {NoOptions})

Spec == Init /\ [][Next]_vars

\* the MasteringOptions a caller passes: none, a secret, the secret set to
\* undefined, another option only
Optionss ==
  {NoOptions,
   [multiChoiceShuffleSecret |-> "s3cr3t"],
   [multiChoiceShuffleSecret |-> undefined],
   [removeCorrectAnswers |-> FALSE]}

InitShuffle == InitWith(ChoiceExams, Optionss)

SpecShuffle == InitShuffle /\ [][Next]_vars

InitMaxScore == InitWith(ScoredExams, {[multiChoiceShuffleSecret |-> undefined]})

SpecMaxScore == InitMaxScore /\ [][Next]_vars

InitScores == InitWith(ScoreExams, {NoOptions})

SpecScores == InitScores /\ [][Next]_vars

InitAnswers == InitWith(AnswerExams, {NoOptions})

SpecAnswers == InitAnswers /\ [][Next]_vars

\* the answers of the redaction documents: scored options, accepted answers
RedactedAnswers ==
  {TextAnswer(1),
   ScoredAnswer("choice-answer", NoAttrs, <<Num(0), Num(1)>>),
   ScoredAnswer("dropdown-answer", NoAttrs, <<Num(1), <<>>>>),
   ScoredAnswer("scored-text-answer", NoAttrs, <<Num(1), Num(MaxScore)>>),
   ScoredAnswer("scored-text-answer", "max-score" :> Num(MaxScore), <<>>)}

RedactionExam(vs, before, answers) ==
  Exam(NoAttrs, vs, <<E("section", NoAttrs, before \o <<E("question", NoAttrs, answers)>>)>>)

\* a question with answers, alone or after a question with a child question,
\* in one version; a question with two scored answers in two versions
RedactionExams ==
  {RedactionExam(Fi, before, answers) :
     before \in {<<>>,
                 <<E("question", NoAttrs,
                     <<E("question", NoAttrs,
                         <<ScoredAnswer("scored-text-answer", NoAttrs, <<Num(1)>>)>>)>>)>>},
     answers \in Seqs(RedactedAnswers, MaxQuestions)}
  \cup
  {RedactionExam(FiSv, <<>>,
                 <<ScoredAnswer("choice-answer", NoAttrs, <<Num(0), Num(1)>>),
                   ScoredAnswer("scored-text-answer", NoAttrs, <<Num(1), Num(MaxScore)>>)>>)}

InitRedaction ==
  InitWith(RedactionExams,
           {NoOptions, [removeCorrectAnswers |-> TRUE], [removeCorrectAnswers |-> FALSE]})

SpecRedaction == InitRedaction /\ [][Next]_vars

\* the exam-code and date an exam may carry
ExamMetadata ==
  {NoAttrs, "exam-code" :> "M", "date" :> "2020-01-01",
   ("exam-code" :> "M") @@ ("date" :> "2020-01-01"),
   ("exam-code" :> "") @@ ("date" :> "2020-01-01"),
   ("exam-code" :> "A") @@ ("day-code" :> "X") @@ ("date" :> "2020-01-01")}

\* exams of one or two versions, with and without exam-code and date
MetadataExams ==
  {Exam(attrs, vs, <<E("section", NoAttrs, questions)>>) :
     attrs \in ExamMetadata,
     vs \in {Fi, FiSv, FiHi},
     questions \in Seqs({Leaf(1)}, MaxQuestions)}

InitMetadata == InitWith(MetadataExams, {NoOptions})

SpecMetadata == InitMetadata /\ [][Next]_vars

\* every pairing of an exam-code with a day-code
ExamCodes ==
  {ec @@ dc : ec \in {NoAttrs} \cup {"exam-code" :> c : c \in {"", "A", "O", "M"}},
              dc \in {NoAttrs} \cup {"day-code" :> c : c \in {"", "X"}}}

\* what the exam holds below its exam-versions: a section that passes every
\* check, and one body for each structural check to fail
Bodies ==
  {<<E("section", NoAttrs, <<Leaf(1)>>)>>,
   <<E("section", NoAttrs, <<TextAnswer(1)>>)>>,
   <<E("section", NoAttrs, <<E("question", NoAttrs, <<TextAnswer(1), Leaf(1)>>)>>)>>,
   <<E("section", NoAttrs,
       <<E("question", NoAttrs, <<ScoredAnswer("scored-text-answer", NoAttrs, <<>>)>>)>>)>>,
   <<E("section", NoAttrs,
       <<E("question", NoAttrs,
           <<ScoredAnswer("scored-text-answer", "max-score" :> Num(1),
                          <<Num(MaxScore)>>)>>)>>)>>,
   <<E("external-material", NoAttrs,
       <<E("attachment", NoAttrs,
           <<E("audio", ("src" :> <<"a">>) @@ ("times" :> Num(1)), <<>>)>>)>>),
     E("section", NoAttrs, <<Leaf(1)>>)>>}

\* what doc.validate(schema) may report: nothing, a warning and an error, or
\* a warning alone
ValidationErrors ==
  {<<>>,
   <<[message |-> "warning", line |-> 0, level |-> 1],
     [message |-> "This element is not expected.", line |-> 2, level |-> 2]>>,
   <<[message |-> "warning", line |-> 0, level |-> 1]>>}

ValidatedExams == {Exam(attrs, vs, body) : attrs \in ExamCodes, vs \in {Fi, FiSv}, body \in Bodies}

InitValidation ==
  /\ xml \in ValidatedExams
  /\ options = NoOptions
  /\ validationErrors \in ValidationErrors
  /\ renderer = NoAttrs
  /\ sha256 = NoAttrs
  /\ memoizedGetMediaMetadata = NoAttrs
  /\ calls = <<>>
  /\ promise = "idle"
  /\ error = <<>>
  /\ results = <<>>
  /\ version = <<>>
  /\ examOutputDirectories = <<>>
  /\ gradingAnswer = NoAnswer

SpecValidation == InitValidation /\ [][Next]_vars

\* what the root of an exam carries: nothing, the exam-code of a subject
\* with a language (SC: de-DE, CA: fi-FI), or a lang of its own
RootAttrs ==
  {NoAttrs, "exam-code" :> "SC", "exam-code" :> "CA", "lang" :> "fi-FI", "lang" :> "sv-FI",
   ("exam-code" :> "SC") @@ ("lang" :> "sv-FI")}

\* exams of one section whose questions are marked or not, under every root
RootedExams ==
  {Exam(attrs, vs,
        <<E("section", NoAttrs, [i \in 1..Len(marks) |-> E("question", marks[i], <<TextAnswer(1)>>)])>>) :
     attrs \in RootAttrs, vs \in {FiSv, FiHi}, marks \in Seqs(Markings, MaxQuestions)}

InitRooted == InitWith(RootedExams, {NoOptions})

SpecRooted == InitRooted /\ [][Next]_vars

\* the markups of the formulas
Markups == {"x^2", "\\frac{"}

\* the renderers: every way of rejecting none, one or both of the markups,
\* with an array of error strings or with another error
Renderers == UNION {[rejected -> {"errors", "error"}] : rejected \in SUBSET Markups}

Formula(attrs, text) == Node("e", "formula", attrs, text, <<>>)

\* one question with an answer and formulas, in one or two versions; the
\* first formula may be one of the sv-FI version only
FormulaExams ==
  {Exam(NoAttrs, vs,
        <<E("section", NoAttrs,
            <<E("question", NoAttrs,
                <<TextAnswer(1)>>
                \o [i \in 1..Len(texts) |-> Formula(IF i = 1 THEN marks ELSE NoAttrs, texts[i])])>>)>>) :
     vs \in {Fi, FiSv}, marks \in {NoAttrs, "lang" :> "sv-FI"}, texts \in Seqs(Markups, MaxFormulas)}

InitFormulas ==
  InitOf(FormulaExams, {NoOptions, [throwOnLatexError |-> TRUE], [throwOnLatexError |-> FALSE]},
         Renderers)

SpecFormulas == InitFormulas /\ [][Next]_vars

\* media of the three kinds a lookup is made as, under a name of one letter
\* or of two, the former in every version or in one only
LookedUp ==
  {E(name, attrs, <<>>) :
     name \in {"audio", "audio-test", "image"},
     attrs \in {"src" :> <<"a">>, "src" :> <<"a", "b">>,
                ("src" :> <<"a">>) @@ ("lang" :> "fi-FI"),
                ("src" :> <<"a">>) @@ ("lang" :> "sv-FI")}}

\* two versions of one question with an answer and media
MediaExams ==
  {Exam(NoAttrs, FiSv,
        <<E("section", NoAttrs, <<E("question", NoAttrs, <<TextAnswer(1)>> \o media)>>)>>) :
     media \in Seqs(LookedUp, MaxMedia)}

InitMedia == InitWith(MediaExams, {NoOptions})

SpecMedia == InitMedia /\ [][Next]_vars

\* exams as createOfflineExam reads them: with or without an exam-code, a
\* date and a day-code, in versions of two languages and of two exam types
OfflineExams ==
  {Exam(attrs, vs, <<E("section", NoAttrs, <<Leaf(1)>>)>>) :
     attrs \in {NoAttrs, "exam-code" :> "SC", ("exam-code" :> "SC") @@ ("date" :> "1970-01-01"),
                ("exam-code" :> "A") @@ ("day-code" :> "X") @@ ("date" :> "1970-01-01")},
     vs \in {Fi, FiSv, FiHi, FiSv \o <<FiHi[2]>>}}

InitOffline == InitWith(OfflineExams, {NoOptions})

SpecOffline == InitOffline /\ [][NextOffline]_vars

\* the answers the grading view is given: a count of characters and, when
\* the question sets one, a maximum length
MaxLengths == {<<>>, null, Num(0), Num(1), Num(2), Num(100), Num(101)}

InitGrading ==
  /\ xml = Exam(NoAttrs, Fi, <<>>)
  /\ options = NoOptions
  /\ validationErrors = <<>>
  /\ renderer = NoAttrs
  /\ sha256 = NoAttrs
  /\ memoizedGetMediaMetadata = NoAttrs
  /\ calls = <<>>
  /\ promise = "idle"
  /\ error = <<>>
  /\ results = <<>>
  /\ version = <<>>
  /\ examOutputDirectories = <<>>
  /\ gradingAnswer \in {<<[characterCount |-> characterCount, maxLength |-> maxLength,
                            rendered |-> <<>>]>> :
                          characterCount \in 0..MaxCharacters, maxLength \in MaxLengths}

SpecGrading == InitGrading /\ [][GradingAnswer]_vars

\* an element of the XHTML vocabulary with text
Xhtml(name, attrs, kids) == Node("xhtml", name, attrs, "text", kids)

\* what a localization block may hold: nothing, text, an answer, a marked
\* element of the exam vocabulary, or another localization block
Contents ==
  {<<"", <<>>>>, <<"text", <<>>>>, <<"", <<TextAnswer(1)>>>>,
   <<"", <<E("hints", "lang" :> "sv-FI", <<>>)>>>>,
   <<"text", <<Node("e", "localization", "lang" :> "sv-FI", "text", <<>>)>>>>,
   <<"", <<Node("e", "localization", "lang" :> "fi-FI", "", <<>>)>>>>}

\* what stands in the question next to its answer: a localization block, or
\* a marked element of the XHTML or of the exam vocabulary
Localizables ==
  {Node("e", "localization", marks, content[1], content[2]) :
     marks \in Markings \cup {("lang" :> "fi-FI") @@ ("exam-type" :> {"normal", "hearing-impaired"})},
     content \in Contents}
  \cup
  {Xhtml("span", marks, <<>>) : marks \in Markings}
  \cup
  {E("question-instruction", marks, <<Xhtml("span", "lang" :> "sv-FI", <<>>)>>) : marks \in Markings}

\* one version of one question with an answer and something localizable
LocalizationExams ==
  {Exam(NoAttrs, <<ev>>,
        <<E("section", NoAttrs, <<E("question", NoAttrs, <<localizable, TextAnswer(1)>>)>>)>>) :
     ev \in {[language |-> "fi-FI", type |-> "normal"],
             [language |-> "sv-FI", type |-> "normal"],
             [language |-> "fi-FI", type |-> "hearing-impaired"]},
     localizable \in Localizables}

InitLocalization == InitWith(LocalizationExams, {NoOptions})

SpecLocalization == InitLocalization /\ [][Next]_vars

\* a question with n text answers
Answered(n) == E("question", NoAttrs, [i \in 1..n |-> TextAnswer(1)])

\* the questions of a section: none, one, two with one and two answers, a
\* question of questions three deep, a question in a question next to a
\* question without answer
NumberedQuestions ==
  {<<>>,
   <<Answered(1)>>,
   <<Answered(2), Answered(1)>>,
   <<E("question", NoAttrs,
       <<Answered(1), E("question", NoAttrs, <<Answered(2), Answered(1)>>)>>)>>,
   <<Answered(1),
     E("question", NoAttrs, <<Xhtml("div", NoAttrs, <<Answered(2)>>), Answered(0)>>)>>}

NumberingExams ==
  {Exam(NoAttrs, Fi, [i \in DOMAIN questions |-> E("section", NoAttrs, questions[i])]) :
     questions \in Seqs(NumberedQuestions, MaxSections)}

InitNumbering == InitWith(NumberingExams, {NoOptions})

SpecNumbering == InitNumbering /\ [][Next]_vars

\* an external-material block of n attachments
ExternalMaterial(n) == E("external-material", NoAttrs, [i \in 1..n |-> E("attachment", NoAttrs, <<>>)])

\* a question with an answer, an attachment of its own and n attachments as
\* external material
Illustrated(n) ==
  E("question", NoAttrs, <<TextAnswer(1), E("attachment", NoAttrs, <<>>), ExternalMaterial(n)>>)

\* the sizes of a question's external material: up to, and beyond, the
\* letters of the alphabet
BlockSizes == {1, 2, Len(alphabet), Len(alphabet) + 1, Len(alphabet) + 2}

\* exam-level external material of two attachments or none, a question with
\* external material of any size and, optionally, a second question
AttachmentExams ==
  {Exam(NoAttrs, Fi, material \o <<E("section", NoAttrs, <<Illustrated(n)>> \o more)>>) :
     material \in {<<>>, <<ExternalMaterial(2)>>},
     n \in BlockSizes,
     more \in {<<>>, <<Illustrated(1)>>, <<Illustrated(2)>>,
               <<E("question", NoAttrs, <<Illustrated(2), Illustrated(1)>>)>>}}

InitAttachments == InitWith(AttachmentExams, {NoOptions})

SpecAttachments == InitAttachments /\ [][Next]_vars

\* the files a question refers to: an audio with and without a playback
\* limit, an audio of another name, and a file of the first name
Media ==
  {E("audio", "src" :> <<"a">>, <<>>),
   E("audio", ("src" :> <<"a">>) @@ ("times" :> Num(1)), <<>>),
   E("audio", "src" :> <<"b">>, <<>>),
   E("file", "src" :> <<"a">>, <<>>)}

\* a reference in the question itself, in a hint, or in a grading instruction
References ==
  Media
  \cup {E("hint", NoAttrs, <<media>>) : media \in Media}
  \cup {E("question-grading-instruction", NoAttrs, <<media>>) : media \in Media}

\* a question with one or two references, in an exam with or without a
\* stylesheet, whose name may be the name of a file
ReferenceExams ==
  {Exam(styled, Fi, <<E("section", NoAttrs,
                        <<E("question", NoAttrs, <<TextAnswer(1)>> \o references)>>)>>) :
     styled \in {NoAttrs, "exam-stylesheet" :> <<"a">>, "exam-stylesheet" :> <<"s">>},
     references \in {<<r>> : r \in References} \cup (References \X References)}

InitReferences ==
  InitWith(ReferenceExams, {NoOptions, "removeCorrectAnswers" :> FALSE})

SpecReferences == InitReferences /\ [][Next]_vars

\* a question of the given answers or questions, counting all or the best
\* ones
Counting(attrs, kids) == E("question", attrs, kids)

\* questions of answers, of questions and of questions of questions, with
\* and without max-answers; a question of nothing; a question whose
\* choice-answer has no option
NestedQuestions ==
  {Leaf(1),
   Counting(NoAttrs, <<>>),
   Counting("max-answers" :> Num(1), <<TextAnswer(1), TextAnswer(2), TextAnswer(1)>>),
   Counting("max-answers" :> Num(2), <<TextAnswer(2), TextAnswer(1), TextAnswer(2)>>),
   Counting(NoAttrs, <<Leaf(1), Leaf(2)>>),
   Counting("max-answers" :> Num(1), <<Leaf(1), Leaf(2)>>),
   Counting("max-answers" :> Num(1),
            <<Counting(NoAttrs, <<Leaf(2), Leaf(2)>>),
              Counting("max-answers" :> Num(1), <<TextAnswer(2), TextAnswer(1)>>),
              Xhtml("div", NoAttrs, <<Leaf(1)>>)>>),
   Counting("max-answers" :> Num(1),
            <<ScoredAnswer("choice-answer", NoAttrs, <<>>), TextAnswer(2)>>)}

NestedExams ==
  {Exam(NoAttrs, Fi, <<E("section", NoAttrs, questions)>>) :
     questions \in {<<q>> : q \in NestedQuestions} \cup (NestedQuestions \X NestedQuestions)}

InitNested == InitWith(NestedExams, {NoOptions})

SpecNested == InitNested /\ [][Next]_vars

\* the answers of the identifier documents: a text answer, a choice answer
\* of two options, a dropdown answer that loses an option in the Finnish
\* version, and a choice answer of the Swedish version only
IdentifiedAnswers ==
  {TextAnswer(1),
   ChoiceAnswer("choice-answer", NoAttrs, <<NoAttrs, NoAttrs>>),
   ChoiceAnswer("dropdown-answer", NoAttrs, <<"lang" :> "sv-FI", NoAttrs>>),
   E("localization", "lang" :> "sv-FI",
     <<ChoiceAnswer("choice-answer", "ordering" :> "fixed", <<NoAttrs, NoAttrs>>)>>)}

\* a question of one or two answers and, optionally, a second question, in
\* the Finnish and the Swedish version
IdentifiedExams ==
  {Exam(NoAttrs, FiSv,
        <<E("section", NoAttrs, <<E("question", NoAttrs, answers)>> \o more)>>) :
     answers \in {<<a>> : a \in IdentifiedAnswers} \cup (IdentifiedAnswers \X IdentifiedAnswers),
     more \in {<<>>, <<E("question", NoAttrs,
                         <<ChoiceAnswer("choice-answer", NoAttrs, <<NoAttrs, NoAttrs>>)>>)>>}}

InitIdentified == InitWith(IdentifiedExams, {NoOptions})

SpecIdentified == InitIdentified /\ [][Next]_vars

----------------------------------------------------------------------------
(* Claims.                                                                 *)

Versions == 1..Len(version)

docOf(v) == version[v].doc

localized(v) ==
  version[v].pc \notin {"addExamMetadata", "addQuestionIds", "applyLocalizations"}

\* the answer elements of the version's tree
answersOf(v) == Range(find(docOf(v), root, answerTypes))

questionId(v, e) == getAttribute(docOf(v), e, "question-id", NaN)

\* C1: ID stability.  An answer that survives localization carries, in every
\* version, the question-id that is its position (from 1) among all answers
\* of the unfiltered source in document order; so an answer that survives in
\* two versions carries the same question-id in both.
C1_IdStability ==
  /\ \A v \in Versions :
       localized(v) =>
         \A e \in answersOf(v) :
           questionId(v, e) = Num(indexOf(find(xml, root, answerTypes), e))
  /\ \A v, w \in Versions :
       (localized(v) /\ localized(w)) =>
         \A e \in answersOf(v) \cap answersOf(w) : questionId(v, e) = questionId(w, e)

\* two mastered versions share an answer, and an answer before it survives
\* in only one of them
C1_Witness ==
  \E v, w \in Versions :
    /\ version[v].pc = "done" /\ version[w].pc = "done"
    /\ \E e \in answersOf(v) \cap answersOf(w) :
         \E d \in answersOf(v) \ answersOf(w) :
           questionId(v, d)[1] < questionId(v, e)[1]

shuffled(v) ==
  version[v].pc \in {"addAnswerOptionIds", "updateMaxScoresToAnswers",
                     "countSectionMaxAndMinAnswers", "countMaxScores", "removeCorrectAnswers",
                     "renderFormulas", "addMediaMetadata", "done"}

choiceAnswersOf(v) == {a \in answersOf(v) : docOf(v)[a].name \in choiceAnswerTypes}

optionsOf(doc, a) == findChildren(doc, a, choiceAnswerOptionTypes)

\* the answer's options that are left in the version, in the order of the source
authoredOrder(v, a) ==
  SelectSeq(optionsOf(xml, a), LAMBDA o : o \in Range(optionsOf(docOf(v), a)))

unshuffled(v) == \A a \in choiceAnswersOf(v) : optionsOf(docOf(v), a) = authoredOrder(v, a)

isFixed(v, a) == getAttribute(docOf(v), a, "ordering", "") = "fixed"

isNoAnswer(v, o) == getAttribute(docOf(v), o, "type", "normal") = "no-answer"

secretGiven ==
  "multiChoiceShuffleSecret" \in DOMAIN options
  /\ options["multiChoiceShuffleSecret"] \notin {undefined, ""}

\* C2 as claimed: options that do not hold multiChoiceShuffleSecret (or no
\* options at all) leave every answer's options in their authored order.
C2_AbsentSecretDisablesShuffling ==
  "multiChoiceShuffleSecret" \notin DOMAIN options =>
    \A v \in Versions : version[v].pc = "done" => unshuffled(v)

\* C2, amended: options that hold multiChoiceShuffleSecret with the value
\* undefined (or the empty string) leave every answer's options in their
\* authored order.
C2_UndefinedSecretDisablesShuffling ==
  ("multiChoiceShuffleSecret" \in DOMAIN options /\ ~secretGiven) =>
    \A v \in Versions : version[v].pc = "done" => unshuffled(v)

\* mastered with the secret set to undefined: an answer that is not fixed
\* keeps its two or more options in place
C2_Witness ==
  /\ "multiChoiceShuffleSecret" \in DOMAIN options /\ ~secretGiven
  /\ \E v \in Versions :
       /\ version[v].pc = "done"
       /\ \E a \in choiceAnswersOf(v) :
            ~isFixed(v, a) /\ Len(optionsOf(docOf(v), a)) >= 2

\* shuffleAnswerOptions has run in version v
shuffleRan(v) == shuffled(v) /\ hasShuffleSecret(optionsWithDefaults(options))

\* C3 as claimed: once shuffleAnswerOptions has run, in every answer that is
\* not fixed no option marked no-answer stands before an option not so marked.
C3_NoAnswerOptionsLast ==
  \A v \in Versions :
    shuffleRan(v) =>
      \A a \in choiceAnswersOf(v) :
        ~isFixed(v, a) =>
          LET os == optionsOf(docOf(v), a)
          IN \A i, j \in 1..Len(os) :
               (i < j /\ isNoAnswer(v, os[i])) => isNoAnswer(v, os[j])

\* C4: an answer marked ordering=fixed keeps the options that survive
\* localization in their authored order, whatever the secret.
C4_FixedOrderingKept ==
  \A v \in Versions :
    shuffled(v) =>
      \A a \in choiceAnswersOf(v) :
        isFixed(v, a) => optionsOf(docOf(v), a) = authoredOrder(v, a)

\* shuffleAnswerOptions has run over a fixed answer that lost an option to
\* localization and whose no-answer option is not its last one
C4_Witness ==
  \E v \in Versions :
    /\ shuffleRan(v)
    /\ \E a \in choiceAnswersOf(v) :
         LET os == optionsOf(docOf(v), a)
         IN /\ isFixed(v, a)
            /\ Len(os) >= 2
            /\ Len(os) < Len(optionsOf(xml, a))
            /\ \E i \in 1..(Len(os) - 1) : isNoAnswer(v, os[i])

done(v) == version[v].pc = "done"

\* countSectionMaxAndMinAnswers has run in version v
counted(v) ==
  version[v].pc \in {"countMaxScores", "removeCorrectAnswers", "renderFormulas",
                     "addMediaMetadata", "done"}

\* updateMaxScoresToAnswers has run in version v, removeCorrectAnswers has not
updated(v) ==
  version[v].pc \in {"countSectionMaxAndMinAnswers", "countMaxScores", "removeCorrectAnswers"}

maxScoreOf(v, e) == getAttribute(docOf(v), e, "max-score", NaN)

sectionsOf(v) == find(docOf(v), root, {"section"})

questionsOf(v, e) == findChildren(docOf(v), e, {"question"})

RECURSIVE Total(_)
\* the sum of a sequence of numbers
Total(ns) == IF ns = <<>> THEN Num(0) ELSE plus(Head(ns), Total(Tail(ns)))

RECURSIVE Highest(_, _)
\* the k highest of a sequence of numbers (all of them when there are fewer);
\* a max-score that is no number counts as the highest, as it does in the
\* order of lodash
Highest(ns, k) ==
  IF k <= 0 \/ ns = <<>> THEN <<>>
  ELSE LET i == CHOOSE i \in 1..Len(ns) :
                  \A j \in 1..Len(ns) : ~(isNaN(ns[j]) /\ ~isNaN(ns[i])) /\ ~gt(ns[j], ns[i])
       IN <<ns[i]>> \o Highest(SubSeq(ns, 1, i - 1) \o SubSeq(ns, i + 1, Len(ns)), k - 1)

\* max-answers as the source declares it on e, or every one of n
declaredOrAll(e, n) == IF hasAttribute(xml, e, "max-answers") THEN xml[e].attrs["max-answers"][1] ELSE n

noMaxAnswers == \A e \in 1..Len(xml) : ~hasAttribute(xml, e, "max-answers")

\* the max-score of e is the sum of the max-scores of the answers beneath it
sumsItsAnswers(v, e) ==
  maxScoreOf(v, e) = Total(map(find(docOf(v), e, answerTypes), LAMBDA a : maxScoreOf(v, a)))

\* C5: score law.  With no max-answers declared on the exam, a section or a
\* question, the exam's max-score is the sum of the max-scores of all its
\* answers, and so is every section's and question's over the answers
\* beneath it.
C5_ScoreLaw ==
  noMaxAnswers =>
    \A v \in Versions :
      done(v) =>
        /\ sumsItsAnswers(v, root)
        /\ \A e \in Range(find(docOf(v), root, {"section", "question"})) : sumsItsAnswers(v, e)

\* mastered without any max-answers: two sections, a question with child
\* questions, and an exam max-score above every answer's
C5_Witness ==
  /\ noMaxAnswers
  /\ \E v \in Versions :
       /\ done(v)
       /\ Len(sectionsOf(v)) = 2
       /\ \E q \in Range(find(docOf(v), root, {"question"})) : questionsOf(v, q) # <<>>
       /\ ~isNaN(maxScoreOf(v, root))
       /\ \A a \in answersOf(v) : gt(maxScoreOf(v, root), maxScoreOf(v, a))

sectionScoreIs(v, s, k) ==
  maxScoreOf(v, s) = Total(Highest(map(questionsOf(v, s), LAMBDA q : maxScoreOf(v, q)), k))

\* C6 as claimed: a section's max-score is the sum of its K highest question
\* max-scores, K being the max-answers the source declares on the section,
\* or the number of its questions.
C6_SectionMaxScoreOfDeclared ==
  \A v \in Versions :
    done(v) =>
      \A s \in Range(sectionsOf(v)) :
        sectionScoreIs(v, s, declaredOrAll(s, Len(questionsOf(v, s))))

\* the K of a section: its declared max-answers; without one, the number of
\* its questions, capped by the max-answers of the exam when the exam
\* declares one
sectionK(v, s) ==
  LET n == Len(questionsOf(v, s))
  IN IF hasAttribute(xml, s, "max-answers") THEN xml[s].attrs["max-answers"][1]
     ELSE IF hasAttribute(xml, root, "max-answers")
          THEN Min(n, xml[root].attrs["max-answers"][1])
          ELSE n

\* C6, amended: a section's max-score is the sum of its K highest question
\* max-scores, K being the section's declared max-answers or, when it
\* declares none, the number of its questions, capped by the exam's
\* max-answers when the exam declares one.
C6_SectionMaxScore ==
  \A v \in Versions :
    done(v) => \A s \in Range(sectionsOf(v)) : sectionScoreIs(v, s, sectionK(v, s))

\* mastered: the exam declares fewer max-answers than a section without a
\* declaration has questions, and the section's max-score is below the sum
\* of its questions' max-scores
C6_Witness ==
  \E v \in Versions :
    /\ done(v)
    /\ \E s \in Range(sectionsOf(v)) :
         /\ ~hasAttribute(xml, s, "max-answers")
         /\ hasAttribute(xml, root, "max-answers")
         /\ xml[root].attrs["max-answers"][1] < Len(questionsOf(v, s))
         /\ gt(Total(map(questionsOf(v, s), LAMBDA q : maxScoreOf(v, q))), maxScoreOf(v, s))

\* the max-scores of the questions each section contributes: its K highest,
\* K being its declared max-answers, or all
pooled(v) ==
  flatten(map(sectionsOf(v),
              LAMBDA s : Highest(map(questionsOf(v, s), LAMBDA q : maxScoreOf(v, q)),
                                 declaredOrAll(s, Len(questionsOf(v, s))))))

\* C7: the exam's max-score is the sum of the top (exam max-answers, or all)
\* max-scores of the pool that takes from every section its top (section
\* max-answers, or all) questions.
C7_ExamMaxScore ==
  \A v \in Versions :
    done(v) =>
      maxScoreOf(v, root) = Total(Highest(pooled(v), declaredOrAll(root, Len(pooled(v)))))

\* mastered: two sections, one of which declares fewer max-answers than it
\* has questions, and an exam that declares fewer than the pool holds
C7_Witness ==
  \E v \in Versions :
    /\ done(v)
    /\ Len(sectionsOf(v)) = 2
    /\ \E s \in Range(sectionsOf(v)) :
         /\ hasAttribute(xml, s, "max-answers")
         /\ xml[s].attrs["max-answers"][1] < Len(questionsOf(v, s))
    /\ hasAttribute(xml, root, "max-answers")
    /\ xml[root].attrs["max-answers"][1] < Len(pooled(v))
    /\ ~isNaN(maxScoreOf(v, root))

RECURSIVE Greatest(_)
\* the greatest of a non-empty sequence of integers
Greatest(ns) ==
  IF Len(ns) = 1 THEN ns[1] ELSE Max(Head(ns), Greatest(Tail(ns)))

scoresOf(v, a) ==
  map(findChildren(docOf(v), a,
                   {"choice-answer-option", "dropdown-answer-option", "accepted-answer"}),
      LAMBDA o : IF hasAttribute(docOf(v), o, "score") THEN docOf(v)[o].attrs["score"][1] ELSE 0)

\* C8 as claimed: after the max-score phase a choice, dropdown or scored-text
\* answer has its declared max-score; without one it has the greatest score
\* of its options or accepted answers (an option without a score counts 0),
\* and 0 when it has none.
C8_MaxScorePhase ==
  \A v \in Versions :
    updated(v) =>
      \A a \in answersOf(v) :
        docOf(v)[a].name \in {"choice-answer", "dropdown-answer", "scored-text-answer"} =>
          maxScoreOf(v, a) =
            IF hasAttribute(xml, a, "max-score") THEN xml[a].attrs["max-score"]
            ELSE IF scoresOf(v, a) = <<>> THEN Num(0)
            ELSE Num(Greatest(scoresOf(v, a)))

examDeclares == hasAttribute(xml, root, "max-answers")

examMaxAnswersOf == xml[root].attrs["max-answers"][1]

\* the M of a section: its declared max-answers or, without one, the number
\* of its questions capped by the exam's max-answers
sectionM(v, s) ==
  IF hasAttribute(xml, s, "max-answers") THEN xml[s].attrs["max-answers"][1]
  ELSE Min(Len(questionsOf(v, s)), examMaxAnswersOf)

RECURSIVE Sigma(_)
\* the sum of a sequence of integers
Sigma(ns) == IF ns = <<>> THEN 0 ELSE Head(ns) + Sigma(Tail(ns))

othersM(v, s) == Sigma(map(SelectSeq(sectionsOf(v), LAMBDA o : o # s), LAMBDA o : sectionM(v, o)))

minAnswersOf(v, s) == getAttribute(docOf(v), s, "min-answers", NaN)

\* C9: when the exam declares max-answers E, every section ends with
\* min-answers = clamp(M, 0, E - sum of the other sections' M), that is M cut
\* down to E minus the others' M and then raised to 0; when the exam declares
\* none, no max-answers and no min-answers attribute is written to a section.
C9_SectionMinAnswers ==
  \A v \in Versions :
    counted(v) =>
      \A s \in Range(sectionsOf(v)) :
        IF examDeclares
        THEN minAnswersOf(v, s) =
               Num(Max(0, Min(sectionM(v, s), examMaxAnswersOf - othersM(v, s))))
        ELSE /\ ~hasAttribute(docOf(v), s, "min-answers")
             /\ hasAttribute(docOf(v), s, "max-answers") = hasAttribute(xml, s, "max-answers")
             /\ getAttribute(docOf(v), s, "max-answers", null) = getAttribute(xml, s, "max-answers", null)

\* counted with a declared exam max-answers: a section without a declared
\* max-answers ends with less than its M, another is cut down to 0
C9_Witness ==
  \E v \in Versions :
    /\ counted(v)
    /\ examDeclares
    /\ \E s, t \in Range(sectionsOf(v)) :
         /\ sectionM(v, s) > 0
         /\ minAnswersOf(v, s) = Num(0)
         /\ ~hasAttribute(xml, t, "max-answers")
         /\ minAnswersOf(v, t)[1] > 0
         /\ minAnswersOf(v, t)[1] < sectionM(v, t)

\* C10: when the exam declares max-answers E, the min-answers of the sections
\* add up to E at most, and every section's min-answers is at least 0 and at
\* most the section's max-answers.
C10_AnswerBudget ==
  \A v \in Versions :
    (counted(v) /\ examDeclares) =>
      /\ Sigma(map(sectionsOf(v), LAMBDA s : minAnswersOf(v, s)[1])) <= examMaxAnswersOf
      /\ \A s \in Range(sectionsOf(v)) :
           /\ minAnswersOf(v, s)[1] >= 0
           /\ minAnswersOf(v, s)[1] <= getAttribute(docOf(v), s, "max-answers", NaN)[1]

\* counted: the other sections' max-answers alone exceed what the exam
\* declares, so the upper bound of the clamp is negative
C10_Witness ==
  \E v \in Versions :
    /\ counted(v)
    /\ examDeclares
    /\ \E s \in Range(sectionsOf(v)) :
         /\ examMaxAnswersOf - othersM(v, s) < 0
         /\ minAnswersOf(v, s) = Num(0)

\* the mastered document of a version
mastered(v) == version[v].result[1].xml

\* the elements of a document, the root included
elementsOf(doc) == IF isUnlinked(doc) THEN <<>> ELSE <<root>> \o descendants(doc, root)

\* C11: redaction law.  With removeCorrectAnswers enabled (the default), in
\* the mastered document of every version no choice-answer-option or
\* dropdown-answer-option carries a score and no scored-text-answer has an
\* accepted-answer child.
C11_RedactionLaw ==
  redacts(optionsWithDefaults(options)) =>
    \A v \in Versions :
      done(v) =>
        \A e \in Range(elementsOf(mastered(v))) :
          /\ mastered(v)[e].name \in choiceAnswerOptionTypes => ~hasAttribute(mastered(v), e, "score")
          /\ mastered(v)[e].name = "scored-text-answer" =>
               findChildren(mastered(v), e, {"accepted-answer"}) = <<>>

\* mastered with redaction: the source has an option with a score and a
\* scored-text-answer with accepted answers, and the option is still there
C11_Witness ==
  /\ redacts(optionsWithDefaults(options))
  /\ \E o \in Range(elementsOf(xml)) :
       xml[o].name \in choiceAnswerOptionTypes /\ hasAttribute(xml, o, "score")
  /\ \E a \in Range(elementsOf(xml)) :
       xml[a].name = "scored-text-answer" /\ findChildren(xml, a, {"accepted-answer"}) # <<>>
  /\ \E v \in Versions :
       /\ done(v)
       /\ \E o \in Range(elementsOf(mastered(v))) : mastered(v)[o].name \in choiceAnswerOptionTypes

\* the calls made to a collaborator, in the order they were made
callsOf(fn) == SelectSeq(calls, LAMBDA c : c.fn = fn)

\* the exam-version elements of the source, in the order they are declared
declaredVersions ==
  flatten([i \in 1..Len(findChildren(xml, root, {"exam-versions"})) |->
             findChildren(xml, findChildren(xml, root, {"exam-versions"})[i], {"exam-version"})])

typeOf(e) == IF hasAttribute(xml, e, "exam-type") THEN CHOOSE t \in xml[e].attrs["exam-type"] : TRUE
             ELSE "normal"

stamped(v) == version[v].pc # "addExamMetadata"

\* C12: generateUuid is called once per declared exam version, in the order
\* of the declarations; a call carries {examCode, date, language, type} of
\* its version when the source has both exam-code and date, and nothing
\* otherwise; what it returns is the exam-uuid of that version's document and
\* the examUuid of its result.
C12_GenerateUuid ==
  promise \in {"pending", "resolved"} =>
    /\ Len(callsOf("generateUuid")) = Len(declaredVersions)
    /\ Len(version) = Len(declaredVersions)
    /\ \A i \in 1..Len(declaredVersions) :
         LET call == callsOf("generateUuid")[i]
             e == declaredVersions[i]
         IN /\ call.args =
                 IF hasAttribute(xml, root, "exam-code") /\ hasAttribute(xml, root, "date")
                 THEN <<[examCode |-> xml[root].attrs["exam-code"],
                         date |-> xml[root].attrs["date"],
                         language |-> xml[e].attrs["lang"],
                         type |-> typeOf(e)]>>
                 ELSE <<>>
            /\ version[i].language = xml[e].attrs["lang"]
            /\ version[i].type = typeOf(e)
            /\ stamped(i) => docOf(i)[root].attrs["exam-uuid"] = call.returns
            /\ done(i) => version[i].result[1].examUuid = call.returns

\* resolved: two versions of a source with exam-code and date, whose calls
\* carried their metadata and returned different values
C12_Witness ==
  /\ promise = "resolved"
  /\ Len(version) = 2
  /\ hasAttribute(xml, root, "exam-code") /\ hasAttribute(xml, root, "date")
  /\ Len(callsOf("generateUuid")) = 2
  /\ callsOf("generateUuid")[1].args # <<>>
  /\ version[1].result[1].examUuid # version[2].result[1].examUuid

\* the source has a day-code that is not empty
hasDayCode == hasAttribute(xml, root, "day-code") /\ xml[root].attrs["day-code"] # ""

\* the exam-code of the source is one that requires a day-code
requiresDayCode ==
  hasAttribute(xml, root, "exam-code") /\ xml[root].attrs["exam-code"] \in {"A", "O"}

\* the schema and the checks of the answers find nothing
passesEarlierChecks ==
  /\ validationErrors = <<>>
  /\ \A a \in Range(find(xml, root, answerTypes)) : answerError(xml, a) = <<>>

dayCodeMessages == {"Invalid exam-code for day-code", "Invalid empty day-code for exam-code"}

\* C13: validation accepts the pair of day-code and exam-code iff the
\* day-code is present and not empty exactly when the exam-code is A or O;
\* with any other pair masterExam rejects, and when the earlier checks find
\* nothing the error is the day-code error located at the root.
C13_DayCode ==
  /\ hasDayCode # requiresDayCode => promise \in {"idle", "rejected"}
  /\ (promise # "idle" /\ passesEarlierChecks) =>
       IF hasDayCode = requiresDayCode
       THEN error = <<>> \/ error[1].message \notin dayCodeMessages
       ELSE /\ promise = "rejected"
            /\ error[1].message \in dayCodeMessages
            /\ error[1].line = root

\* rejected at the root: a day-code with an exam-code that takes none
C13_Witness ==
  /\ promise = "rejected"
  /\ passesEarlierChecks
  /\ hasDayCode
  /\ hasAttribute(xml, root, "exam-code") /\ ~requiresDayCode
  /\ error[1].line = root

\* the source fails the schema validation or a structural check
invalid == assertExamIsValid(xml, validationErrors) # <<>>

\* C14: validation precedes everything.  A source that fails the schema or a
\* structural check makes masterExam reject with that error; no collaborator
\* is called, no version is started and no result is produced.
C14_ValidationFirst ==
  invalid =>
    /\ promise \in {"idle", "rejected"}
    /\ calls = <<>>
    /\ version = <<>>
    /\ promise = "rejected" => error = assertExamIsValid(xml, validationErrors)

\* rejected by a structural check of a source of two versions
C14_Witness ==
  /\ promise = "rejected"
  /\ validationErrors = <<>>
  /\ Len(declaredVersions) = 2
  /\ error[1].line # 0
  /\ calls = <<>>
  /\ version = <<>>

\* the localization blocks of the source
localizationsOf == Range(find(xml, root, {"localization"}))

\* e is in the tree of version v
attached(v, e) == e \in Range(elementsOf(docOf(v)))

\* e is still a child of the parent it has in the source
inPlace(v, e) == \A p \in Parents(xml, e) : e \in Range(docOf(v)[p].children)

\* the lang of e is, or defaults to, the language of version v, and its
\* exam-type includes, or defaults to, the type of version v
matches(v, e) ==
  /\ hasAttribute(xml, e, "lang") => xml[e].attrs["lang"] = version[v].language
  /\ hasAttribute(xml, e, "exam-type") => version[v].type \in xml[e].attrs["exam-type"]

hasContent(e) == xml[e].children # <<>> \/ xml[e].text # ""

\* C15: applyLocalizations keeps a localization block iff its lang matches,
\* its exam-type includes the type and it has content; a kept block is a
\* plain container without exam-type that holds what it held, any other block
\* is taken out with what it holds, and exam-versions is taken out.
C15_LocalizationBlocks ==
  \A v \in Versions :
    localized(v) =>
      /\ \A l \in localizationsOf :
           /\ inPlace(v, l) <=> (matches(v, l) /\ hasContent(l))
           /\ inPlace(v, l) =>
                /\ docOf(v)[l].name = "span"
                /\ docOf(v)[l].ns = "xhtml"
                /\ ~hasAttribute(docOf(v), l, "exam-type")
                /\ docOf(v)[l].text = xml[l].text
           /\ ~inPlace(v, l) =>
                /\ ~attached(v, l)
                /\ \A e \in Range(descendants(xml, l)) : ~attached(v, e)
      /\ \A e \in Range(find(xml, root, {"exam-versions", "exam-version"})) : ~attached(v, e)

\* localized: a block with lang and exam-type is kept with its answer, in a
\* version whose type is not the only one the block names
C15_Witness ==
  \E v \in Versions :
    /\ localized(v)
    /\ \E l \in localizationsOf :
         /\ hasAttribute(xml, l, "exam-type")
         /\ hasAttribute(xml, l, "lang")
         /\ attached(v, l)
         /\ ~hasAttribute(docOf(v), l, "exam-type")
    /\ \E l \in localizationsOf : ~attached(v, l) /\ matches(v, l)

\* e carries a lang or an exam-type that is not the one of version v
mismatches(v, e) ==
  \/ hasAttribute(docOf(v), e, "lang") /\ docOf(v)[e].attrs["lang"] # version[v].language
  \/ hasAttribute(docOf(v), e, "exam-type") /\ version[v].type \notin docOf(v)[e].attrs["exam-type"]

\* C16 as claimed: after applyLocalizations no element but a kept
\* localization block, of whatever vocabulary, carries a lang other than the
\* version's language or an exam-type without the version's type.
C16_NoMismatchOfAnyVocabulary ==
  \A v \in Versions :
    localized(v) =>
      \A e \in Range(elementsOf(docOf(v))) \ localizationsOf : ~mismatches(v, e)

\* C16, amended: after applyLocalizations no element of the exam vocabulary
\* carries a lang other than the version's language or an exam-type without
\* the version's type; an element of another vocabulary that carries one
\* stays where it is unless an element around it is removed.
C16_NoMismatchOfExamVocabulary ==
  \A v \in Versions :
    localized(v) =>
      /\ \A e \in Range(elementsOf(docOf(v))) : docOf(v)[e].ns = "e" => ~mismatches(v, e)
      /\ \A e \in Range(descendants(xml, root)) :
           (xml[e].ns # "e" /\ xml[e].name # "exam-version") => inPlace(v, e)

\* localized: a marked element of the exam vocabulary is gone, and so is the
\* marked XHTML element it held
C16_Witness ==
  \E v \in Versions :
    /\ localized(v)
    /\ \E e \in Range(descendants(xml, root)) :
         /\ xml[e].name = "question-instruction"
         /\ ~attached(v, e)
         /\ \E x \in Range(xml[e].children) : xml[x].ns = "xhtml" /\ ~attached(v, x)

\* the display-numbers are written in version v
numbered(v) == version[v].pc \notin {"addExamMetadata", "addQuestionIds", "applyLocalizations",
                                     "parseExamStructure", "addYoCustomizations",
                                     "addSectionNumbers"}

displayNumber(v, e) == getAttribute(docOf(v), e, "display-number", <<>>)

\* the questions of all sections of version v, section after section
topLevelQuestionsOf(v) ==
  flatten([i \in 1..Len(sectionsOf(v)) |-> questionsOf(v, sectionsOf(v)[i])])

\* the questions right below question q of version v, in document order
childQuestionsOf(v, q) ==
  LET found == find(docOf(v), q, {"question"})
      F[i \in 0..Len(found)] ==
        IF i = 0 THEN <<>>
        ELSE IF nearestQuestion(docOf(v), found[i]) = q THEN Append(F[i - 1], found[i])
             ELSE F[i - 1]
  IN F[Len(found)]

\* C17: the i-th of all sections' questions, counted through the sections
\* from 1, has display-number i; the i-th child question of a question,
\* counted from 1, has the display-number of that question, ".", i, at every
\* depth.
C17_QuestionNumbers ==
  \A v \in Versions :
    numbered(v) =>
      /\ \A i \in DOMAIN topLevelQuestionsOf(v) :
           displayNumber(v, topLevelQuestionsOf(v)[i]) = <<ToString(i)>>
      /\ \A q \in Range(find(docOf(v), root, {"question"})) :
           \A i \in DOMAIN childQuestionsOf(v, q) :
             displayNumber(v, childQuestionsOf(v, q)[i]) = displayNumber(v, q) \o <<ToString(i)>>

\* numbered: the first question of a later section is not number 1, and a
\* question three deep has a number of three parts
C17_Witness ==
  \E v \in Versions :
    /\ numbered(v)
    /\ \E i \in DOMAIN sectionsOf(v) :
         /\ i > 1
         /\ questionsOf(v, sectionsOf(v)[i]) # <<>>
         /\ displayNumber(v, questionsOf(v, sectionsOf(v)[i])[1]) # <<"1">>
    /\ \E q \in Range(find(docOf(v), root, {"question"})) : Len(displayNumber(v, q)) = 3

\* the questions of version v without child questions
leafQuestionsOf(v) ==
  {q \in Range(find(docOf(v), root, {"question"})) : childQuestionsOf(v, q) = <<>>}

\* C18: the only answer of a leaf question has the display-number of the
\* question; of several answers the i-th, counted from 1 in document order,
\* has the display-number of the question, ".", i.
C18_AnswerNumbers ==
  \A v \in Versions :
    numbered(v) =>
      \A q \in leafQuestionsOf(v) :
        LET answers == find(docOf(v), q, answerTypes)
        IN \A i \in DOMAIN answers :
             displayNumber(v, answers[i]) =
               IF Len(answers) = 1 THEN displayNumber(v, q)
               ELSE displayNumber(v, q) \o <<ToString(i)>>

\* numbered: a nested question with one answer and one with two, numbered
\* 1.2.1 and 1.2.2 under question 1.2
C18_Witness ==
  \E v \in Versions :
    /\ numbered(v)
    /\ \E q \in leafQuestionsOf(v) :
         /\ Len(displayNumber(v, q)) = 3
         /\ Len(find(docOf(v), q, answerTypes)) = 1
    /\ \E q \in leafQuestionsOf(v) :
         /\ Len(displayNumber(v, q)) = 2
         /\ Len(find(docOf(v), q, answerTypes)) = 2
         /\ displayNumber(v, find(docOf(v), q, answerTypes)[2]) = displayNumber(v, q) \o <<"2">>

\* the external-material blocks of version v
blocksOf(v) == Range(find(docOf(v), root, {"external-material"}))

\* the attachments of block b of version v, in document order
attachmentsOf(v, b) == findChildren(docOf(v), b, {"attachment"})

\* what stands before the letter in block b: nothing at the exam level, the
\* display-number of the question otherwise
prefixOf(v, b) ==
  IF b \in Range(docOf(v)[root].children) THEN <<>>
  ELSE displayNumber(v, CHOOSE q \in 1..Len(docOf(v)) : b \in Range(docOf(v)[q].children))

\* the i-th attachment of every block has the prefix of the block and the
\* i-th letter, and no other attachment has a display-number
lettering(v) ==
  /\ \A b \in blocksOf(v) :
       \A i \in DOMAIN attachmentsOf(v, b) :
         /\ i \in DOMAIN alphabet
         /\ displayNumber(v, attachmentsOf(v, b)[i]) = prefixOf(v, b) \o <<alphabet[i]>>
  /\ \A a \in Range(find(docOf(v), root, {"attachment"})) :
       hasAttribute(docOf(v), a, "display-number") =>
         \E b \in blocksOf(v) : a \in Range(attachmentsOf(v, b))

\* C19: only the attachments of an external-material block have a
\* display-number; the i-th of a block has the i-th letter of the alphabet
\* after the question's display-number and ".", or alone at the exam level,
\* so the numbers end in a letter and differ within a block.
C19_AttachmentLetters ==
  \A v \in Versions :
    numbered(v) =>
      /\ lettering(v)
      /\ \A b \in blocksOf(v) :
           \A i, j \in DOMAIN attachmentsOf(v, b) :
             /\ displayNumber(v, attachmentsOf(v, b)[i]) # <<>>
             /\ displayNumber(v, attachmentsOf(v, b)[i])[Len(displayNumber(v, attachmentsOf(v, b)[i]))]
                  \in Range(alphabet)
             /\ i # j => displayNumber(v, attachmentsOf(v, b)[i]) # displayNumber(v, attachmentsOf(v, b)[j])

\* the attachments of the result of version v
attachmentsOfResult(v) == version[v].result[1].attachments

\* the attachment elements of the mastered document of version v
referencesOf(v) == find(mastered(v), root, attachmentTypes)

\* a is below an element of one of the names in the mastered document
below(v, a, names) == \E e \in Range(ancestors(mastered(v), a)) : mastered(v)[e].name \in names

\* the four fields of the reference a of version v
entryOf(v, a) ==
  [filename |-> mastered(v)[a].attrs["src"],
   restricted |-> hasAttribute(mastered(v), a, "times"),
   visibleInGradingInstructions |->
     below(v, a, {"answer-grading-instruction", "choice-answer-option", "dropdown-answer-option",
                  "exam-grading-instruction", "question-grading-instruction", "hint",
                  "question-title", "question-instruction"}),
   withinGradingInstruction |->
     below(v, a, {"exam-grading-instruction", "question-grading-instruction",
                  "answer-grading-instruction"})]

\* the entry of the stylesheet the exam declares
stylesheetOf(v) ==
  [filename |-> mastered(v)[root].attrs["exam-stylesheet"], restricted |-> FALSE,
   visibleInGradingInstructions |-> FALSE, withinGradingInstruction |-> FALSE]

\* C20: the attachments of a result hold no two entries equal in filename,
\* restricted, visibleInGradingInstructions and withinGradingInstruction;
\* they hold the entry of every reference, so references to one filename that
\* differ in a flag are both there, and the entry of a declared stylesheet
\* with the three flags false; they hold nothing else.
C20_Attachments ==
  \A v \in Versions :
    done(v) =>
      /\ \A i, j \in DOMAIN attachmentsOfResult(v) :
           attachmentsOfResult(v)[i] = attachmentsOfResult(v)[j] => i = j
      /\ \A a \in Range(referencesOf(v)) : entryOf(v, a) \in Range(attachmentsOfResult(v))
      /\ hasAttribute(mastered(v), root, "exam-stylesheet") =>
           stylesheetOf(v) \in Range(attachmentsOfResult(v))
      /\ \A entry \in Range(attachmentsOfResult(v)) :
           \/ \E a \in Range(referencesOf(v)) : entry = entryOf(v, a)
           \/ hasAttribute(mastered(v), root, "exam-stylesheet") /\ entry = stylesheetOf(v)

\* done: two references to one filename that differ in a flag are two
\* entries, and the stylesheet of that name is one with the entry equal to it
C20_Witness ==
  \E v \in Versions :
    /\ done(v)
    /\ hasAttribute(mastered(v), root, "exam-stylesheet")
    /\ Len(referencesOf(v)) = 2
    /\ Len(attachmentsOfResult(v)) = 2
    /\ stylesheetOf(v).filename = entryOf(v, referencesOf(v)[1]).filename
    /\ entryOf(v, referencesOf(v)[1]).filename = entryOf(v, referencesOf(v)[2]).filename
    /\ entryOf(v, referencesOf(v)[1]).withinGradingInstruction
         # entryOf(v, referencesOf(v)[2]).withinGradingInstruction

\* addAnswerOptionIds has run in version v
identified(v) ==
  version[v].pc \in {"updateMaxScoresToAnswers", "countSectionMaxAndMinAnswers", "countMaxScores",
                     "removeCorrectAnswers", "renderFormulas", "addMediaMetadata", "done"}

optionId(v, o) == getAttribute(docOf(v), o, "option-id", NaN)

\* C24: no option has an option-id before addAnswerOptionIds has run, which
\* is after shuffleAnswerOptions; from then on the option-ids of every
\* choice-answer and dropdown-answer increase strictly along the order its
\* options have in the version.
C24_OptionIdsFollowOutputOrder ==
  \A v \in Versions :
    \A a \in choiceAnswersOf(v) :
      LET os == optionsOf(docOf(v), a)
      IN /\ ~identified(v) => \A i \in DOMAIN os : ~hasAttribute(docOf(v), os[i], "option-id")
         /\ identified(v) =>
              \A i, j \in DOMAIN os :
                i < j => /\ optionId(v, os[i]) # NaN
                         /\ optionId(v, os[j]) # NaN
                         /\ optionId(v, os[i])[1] < optionId(v, os[j])[1]

\* identified: an answer whose options are not in their authored order
C24_Witness ==
  \E v \in Versions :
    /\ identified(v)
    /\ shuffleRan(v)
    /\ \E a \in choiceAnswersOf(v) :
         /\ Len(optionsOf(docOf(v), a)) >= 2
         /\ optionsOf(docOf(v), a) # authoredOrder(v, a)

\* what question q of version v counts: its child questions, or its answers
\* when it has none
answerablesOf(v, q) ==
  IF childQuestionsOf(v, q) # <<>> THEN childQuestionsOf(v, q)
  ELSE find(docOf(v), q, answerTypes)

\* C26: once countMaxScores has run, the max-score of every question, at
\* every depth, is the sum of the K highest max-scores of its child questions
\* or, when it has none, of its answers; K is the max-answers of the question
\* or, when it declares none, the number of them.  A question of nothing has
\* max-score 0.
C26_QuestionMaxScores ==
  \A v \in Versions :
    done(v) =>
      \A q \in Range(find(docOf(v), root, {"question"})) :
        LET scores == [i \in DOMAIN answerablesOf(v, q) |-> maxScoreOf(v, answerablesOf(v, q)[i])]
        IN /\ maxScoreOf(v, q) = Total(Highest(scores, declaredOrAll(q, Len(scores))))
           /\ scores = <<>> => maxScoreOf(v, q) = Num(0)

\* done: a question that counts the best one of three questions, one of
\* which counts the best one of its two answers and one of which adds up its
\* two questions, so that it has fewer points than the answers beneath it
C26_Witness ==
  \E v \in Versions :
    /\ done(v)
    /\ \E q \in Range(find(docOf(v), root, {"question"})) :
         /\ Len(childQuestionsOf(v, q)) = 3
         /\ hasAttribute(xml, q, "max-answers")
         /\ maxScoreOf(v, q) = Num(4)
         /\ \E c \in Range(childQuestionsOf(v, q)) :
              /\ childQuestionsOf(v, c) = <<>>
              /\ hasAttribute(xml, c, "max-answers")
              /\ maxScoreOf(v, c) = Num(2)
    /\ \E q \in Range(find(docOf(v), root, {"question"})) :
         answerablesOf(v, q) = <<>> /\ maxScoreOf(v, q) = Num(0)

\* addQuestionIds has run in version v
questioned(v) == version[v].pc \notin {"addExamMetadata", "addQuestionIds"}

\* the answers of the source, in document order
answersOfSource == find(xml, root, answerTypes)

\* the options of the tree of version v
allOptionsOf(v) == Range(find(docOf(v), root, choiceAnswerOptionTypes))

\* C29: the answers of the source get the question-ids 1..N in document
\* order, N being their number, and keep them in the version; every option
\* of the version gets an option-id above N that no other option has, so no
\* two identifiers of a version are equal.
C29_DistinctIdentifiers ==
  \A v \in Versions :
    /\ version[v].pc = "applyLocalizations" =>
         \A i \in DOMAIN answersOfSource : questionId(v, answersOfSource[i]) = Num(i)
    /\ questioned(v) =>
         \A e \in answersOf(v) : questionId(v, e) = Num(indexOf(answersOfSource, e))
    /\ identified(v) =>
         /\ \A o \in allOptionsOf(v) :
              /\ optionId(v, o) # NaN
              /\ optionId(v, o)[1] > Len(answersOfSource)
         /\ \A o, p \in allOptionsOf(v) : optionId(v, o) = optionId(v, p) => o = p
         /\ \A o \in allOptionsOf(v) : \A e \in answersOf(v) : optionId(v, o) # questionId(v, e)

\* identified: a version that lost an answer and an option to localization
\* and has the options of two answers
C29_Witness ==
  \E v \in Versions :
    /\ identified(v)
    /\ Cardinality(answersOf(v)) < Len(answersOfSource)
    /\ Cardinality(allOptionsOf(v)) < Len(find(xml, root, choiceAnswerOptionTypes))
    /\ Cardinality({a \in choiceAnswersOf(v) : optionsOf(docOf(v), a) # <<>>}) >= 2

\* element e of the source carries neither a lang nor an exam-type
unmarked(e) == ~hasAttribute(xml, e, "lang") /\ ~hasAttribute(xml, e, "exam-type")

\* C30: localization removes neither the root of the exam nor a section,
\* question or answer that carries no lang and no exam-type of its own and
\* has no removed ancestor, whatever the root carries, and the answers that
\* stay keep the order they have in the source.
C30_LocalizationKeepsUnmarked ==
  \A v \in 1..Len(version) :
    localized(v) =>
      /\ attached(v, root)
      /\ \A e \in Range(find(xml, root, {"section", "question"} \cup answerTypes)) :
           (unmarked(e) /\ \A a \in Range(ancestors(xml, e)) : attached(v, a)) => attached(v, e)
      /\ \A i, j \in 1..Len(find(docOf(v), root, answerTypes)) :
           i < j => indexOf(find(xml, root, answerTypes), find(docOf(v), root, answerTypes)[i])
                    < indexOf(find(xml, root, answerTypes), find(docOf(v), root, answerTypes)[j])

\* C30 where it holds: the root of the source carries no lang (the language
\* of the subject is written on the root after the localization)
C30_UnlessRootIsMarked ==
  ~hasAttribute(xml, root, "lang") => C30_LocalizationKeepsUnmarked

\* a version is through addYoCustomizations with the language of the subject
\* on its root, another language than its own, and with its root, an unmarked
\* question and that question's answer in place, a marked question removed
C30_Witness ==
  \E v \in 1..Len(version) :
    /\ numbered(v)
    /\ ~hasAttribute(xml, root, "lang")
    /\ hasAttribute(docOf(v), root, "lang")
    /\ docOf(v)[root].attrs["lang"] # version[v].language
    /\ attached(v, root)
    /\ \E q \in Range(find(xml, root, {"question"})) :
         unmarked(q) /\ attached(v, q) /\ \A a \in Range(find(xml, q, answerTypes)) : attached(v, a)
    /\ \E q \in Range(find(xml, root, {"question"})) : ~unmarked(q) /\ ~attached(v, q)

\* options.throwOnLatexError, as masterExam hands it on
strict == optionsWithDefaults(options).throwOnLatexError = TRUE

failed(v) == version[v].pc = "failed"

\* the formulas of version v whose turn of the loop of renderFormulas is over
turned(v) ==
  IF version[v].pc = "renderFormulas" THEN 1..(version[v].index - 1)
  ELSE IF version[v].pc \in {"addMediaMetadata", "done"} THEN 1..Len(formulas(docOf(v)))
  ELSE IF failed(v) THEN 1..version[v].index
  ELSE {}

\* the renderer rejects formula e
fails(e) == "svg" \notin DOMAIN renderFormula(renderer, xml[e].text)

\* the renderer rejects formula e with an array of error strings
failsWithErrors(e) == "errors" \in DOMAIN renderFormula(renderer, xml[e].text)

\* the formulas the versions have failed at; masterExam is rejected with the
\* error of the version that failed first
failedAt == {formulas(docOf(w))[version[w].index] : w \in {w \in 1..Len(version) : failed(w)}}

\* C23: with throwOnLatexError, a formula the renderer fails for fails the
\* version with one error located at that formula; without it, no version
\* fails: a formula the renderer fails for is left without an svg and the
\* formulas after it are rendered.
C23_RenderErrorPolicy ==
  \A v \in 1..Len(version) :
    LET found == formulas(docOf(v))
    IN /\ strict =>
            /\ \A k \in turned(v) : fails(found[k]) => failed(v) /\ k = version[v].index
            /\ failed(v) =>
                 /\ fails(found[version[v].index])
                 /\ promise = "rejected"
                 /\ Len(error) = 1 /\ error[1].line \in failedAt
       /\ ~strict =>
            /\ ~failed(v)
            /\ \A k \in turned(v) : fails(found[k]) <=> ~hasAttribute(docOf(v), found[k], "svg")

\* what renderFormulas does, with and without throwOnLatexError: a formula
\* the renderer rejects with an array of error strings fails the version with
\* one error located at that formula; a formula it rejects otherwise is left
\* without an svg, and the formulas after it are rendered
C23_ByWhatIsThrown ==
  \A v \in 1..Len(version) :
    LET found == formulas(docOf(v))
    IN /\ \A k \in turned(v) :
            /\ failsWithErrors(found[k]) => failed(v) /\ k = version[v].index
            /\ fails(found[k]) <=> ~hasAttribute(docOf(v), found[k], "svg")
       /\ failed(v) =>
            /\ failsWithErrors(found[version[v].index])
            /\ promise = "rejected"
            /\ Len(error) = 1 /\ error[1].line \in failedAt

\* with throwOnLatexError, a version is done although the renderer has
\* failed for its first formula, and the formula after it is rendered
C23_Witness ==
  \E v \in 1..Len(version) :
    LET found == formulas(docOf(v))
    IN /\ strict /\ done(v) /\ Len(found) > 1
       /\ fails(found[1]) /\ ~hasAttribute(docOf(v), found[1], "svg")
       /\ hasAttribute(docOf(v), found[2], "svg")

\* C22: masterExam is fulfilled only when every declared version is
\* mastered, with one result for each declared version in the order of
\* their declaration; when a version fails it is rejected with an error and
\* hands out no result of any version.
C22_AllOrNothing ==
  /\ promise = "resolved" =>
       /\ \A v \in 1..Len(version) : done(v)
       /\ Len(results) = Len(examVersions(xml))
       /\ \A i \in 1..Len(results) :
            /\ results[i] = version[i].result[1]
            /\ results[i].language = examVersions(xml)[i].language
            /\ results[i].type = examVersions(xml)[i].type
  /\ (\E v \in 1..Len(version) : failed(v)) => promise = "rejected" /\ Len(error) = 1
  /\ promise # "resolved" => results = <<>>

\* of two versions one has failed and the other is done: masterExam is
\* rejected and hands out nothing
C22_Witness ==
  /\ Len(version) = 2
  /\ \E v, w \in 1..Len(version) : failed(v) /\ done(w)
  /\ promise = "rejected"
  /\ results = <<>>

\* two versions are done and masterExam is fulfilled with their results
C22_Fulfilled ==
  /\ Len(version) = 2
  /\ promise = "resolved"
  /\ Len(results) = 2

\* the lookups made of the caller's getMediaMetadata
lookups == SelectSeq(calls, LAMBDA call : call.fn = "getMediaMetadata")

\* the attachments of version v that have their metadata
lookedUp(v) ==
  {version[v].attachments[i] :
     i \in {i \in 1..Len(version[v].attachments) :
              /\ hasMediaMetadata(docOf(v), version[v].attachments[i])
              /\ \/ done(v)
                 \/ version[v].pc = "addMediaMetadata" /\ i < version[v].index}}

\* the metadata written on attachment a of version v
metadataOn(v, a) ==
  IF mediaType(docOf(v)[a].name) = "audio" THEN docOf(v)[a].attrs["duration"]
  ELSE docOf(v)[a].attrs["width"]

\* no (src, kind) is looked up twice
C21_AtMostOnce ==
  \A i, j \in 1..Len(lookups) : lookups[i].args = lookups[j].args => i = j

\* every attachment has the metadata of its own src and kind
C21_OwnMetadata ==
  \A v \in 1..Len(version) :
    \A a \in lookedUp(v) :
      metadataOn(v, a) = getMediaMetadata(docOf(v)[a].attrs["src"], mediaType(docOf(v)[a].name))

\* C21: the caller's getMediaMetadata is called at most once for every
\* (src, kind) of the whole run, and every lookup gets the metadata of its
\* own (src, kind).
C21_MemoizedLookups == C21_AtMostOnce /\ C21_OwnMetadata

\* C21 where it holds: for names of two characters and more
C21_OfLongerNames ==
  /\ C21_AtMostOnce
  /\ \A v \in 1..Len(version) :
       \A a \in lookedUp(v) :
         Len(docOf(v)[a].attrs["src"]) > 1 =>
           metadataOn(v, a) = getMediaMetadata(docOf(v)[a].attrs["src"],
                                               mediaType(docOf(v)[a].name))

\* both versions are done with an audio and an image of one two-letter name:
\* two lookups for the four attachments
C21_Witness ==
  /\ Len(version) = 2 /\ \A v \in 1..Len(version) : done(v)
  /\ Len(lookups) = 2
  /\ \A v \in 1..Len(version) :
       /\ Cardinality(lookedUp(v)) = 2
       /\ \A a \in lookedUp(v) : Len(docOf(v)[a].attrs["src"]) = 2

\* version v, mastered alone from the same source, with the same options,
\* exam-uuid, digests and renderer
alone(v) ==
  masterExamVersion(xml, version[v].language, version[v].type, version[v].examUuid,
                    optionsWithDefaults(options), sha256, renderer)

\* C25: under every interleaving of the versions, the result of a version is
\* the result of mastering that version alone.
C25_Hermetic ==
  \A v \in 1..Len(version) :
    /\ done(v) => version[v].result = alone(v)
    /\ failed(v) => alone(v) = <<>>

\* two media of the source share the key of their lookups without being of
\* one src and kind
collide ==
  \E a, b \in Range(find(xml, root, {"audio", "audio-test", "image", "video"})) :
    /\ join(xml[a].attrs["src"], mediaType(xml[a].name))
         = join(xml[b].attrs["src"], mediaType(xml[b].name))
    /\ mediaType(xml[a].name) # mediaType(xml[b].name)

\* C25 where it holds: for a source without such media
C25_UnlessLookupsCollide == ~collide => C25_Hermetic

\* both versions are done with media looked up, of a source whose lookups
\* do not collide, the second version having made no call of its own
C25_Witness ==
  /\ ~collide
  /\ Len(version) = 2 /\ \A v \in 1..Len(version) : done(v) /\ lookedUp(v) # {}
  /\ Len(lookups) = 1

\* C28: createOfflineExam writes one directory for every result of
\* masterExam, and no two versions are written to one directory.
C28_DistinctDirectories ==
  /\ Len(examOutputDirectories) <= Len(results)
  /\ \A i, j \in 1..Len(examOutputDirectories) :
       i # j => examOutputDirectories[i] # examOutputDirectories[j]

\* C28 where it holds: versions of different languages are written to
\* different directories
C28_OfDifferentLanguages ==
  /\ Len(examOutputDirectories) <= Len(results)
  /\ \A i, j \in 1..Len(examOutputDirectories) :
       results[i].language # results[j].language =>
         examOutputDirectories[i] # examOutputDirectories[j]

\* the three versions of an exam with an exam-code are written
C28_Witness ==
  /\ Len(results) = 3 /\ Len(examOutputDirectories) = 3
  /\ hasAttribute(xml, root, "exam-code")

\* the answer is rendered
shown == gradingAnswer # NoAnswer /\ gradingAnswer[1].rendered # <<>>

\* the answer has more characters than its maximum length
exceeds ==
  /\ gradingAnswer[1].maxLength \notin {<<>>, null}
  /\ gradingAnswer[1].characterCount > gradingAnswer[1].maxLength[1]

\* C27: the surplus is rendered whenever the answer has more characters
\* than its maximum length, and never otherwise; the percentage shown is
\* floor(100 * characterCount / maxLength - 100).
C27_SurplusWarning ==
  shown =>
    /\ exceeds <=> gradingAnswer[1].rendered[1].surplus # <<>>
    /\ gradingAnswer[1].rendered[1].surplus # <<>> =>
         gradingAnswer[1].rendered[1].surplus[1].percentage
           = (100 * gradingAnswer[1].characterCount) \div gradingAnswer[1].maxLength[1] - 100

\* C27 where it holds: the surplus is rendered whenever the maximum length
\* is not 0 and the percentage is at least 1, that is from a surplus of one
\* per cent of the maximum length
C27_FromOnePerCent ==
  shown =>
    /\ (exceeds /\ gradingAnswer[1].maxLength # Num(0)
           /\ 100 * gradingAnswer[1].characterCount >= 101 * gradingAnswer[1].maxLength[1])
         <=> gradingAnswer[1].rendered[1].surplus # <<>>
    /\ gradingAnswer[1].rendered[1].surplus # <<>> =>
         gradingAnswer[1].rendered[1].surplus[1].percentage
           = (100 * gradingAnswer[1].characterCount) \div gradingAnswer[1].maxLength[1] - 100

\* an answer of 368 characters with a maximum length of 100 is rendered
\* with a surplus of 268 per cent
C27_Witness ==
  /\ shown
  /\ gradingAnswer[1].characterCount = 368 /\ gradingAnswer[1].maxLength = Num(100)
  /\ gradingAnswer[1].rendered[1].surplus = <<[maxLength |-> Num(100), percentage |-> 268]>>

====
